---- MODULE Spec2Model ----
(***************************************************************************)
(* A model of the cucumber HTTP dispatcher (app.go), its built-in          *)
(* middleware (PanicRecovery, RequestLogger) and the Context execution     *)
(* engine that drives a handler chain.                                     *)
(*                                                                         *)
(* Paths are sequences of one-character strings.  A route pattern may hold *)
(* the tokens ":p" / ":q", each standing for one named-parameter segment.  *)
(* Handlers are opaque closures: what a user handler does (Next, Abort,    *)
(* Status, Write, panic, return) is chosen step by step.                   *)
(***************************************************************************)
EXTENDS Integers, Sequences, FiniteSets, TLC

VARIABLES
    phase,      \* "new" | "setup" | "failed" | "idle" | "dispatch" | "chain" | "handled"
    opts,       \* App.Options (the fields the dispatcher reads)
    Handlers,   \* a.router.Handlers: the global middleware list
    groups,     \* the sub-routers made with Router.Group
    trees,      \* a.router.trees: method -> registered routes
    pool,       \* a.pool: the Contexts put back and not yet taken
    c,          \* the Context of the request in flight
    Request,    \* c.Request
    writermem,  \* c.writermem: the response-writer wrapper
    w,          \* the http.ResponseWriter of the request: what the client gets
    stack,      \* the goroutine's call stack below handleHTTPRequest
    panicking,  \* the value of the panic in flight, or "none"
    hist,       \* what happened while serving the request (observation only)
    goroutines, \* the goroutines of the HTTP server, one per connection
    heap,       \* the Contexts allocated for the pool, by address
    paginator,  \* the Paginator made last and the strings it was made from
    session     \* Session.Session.Values and the last call on the Session

vars == <<phase, opts, Handlers, groups, trees, pool, c, Request, writermem, w, stack,
          panicking, hist, goroutines, heap, paginator, session>>

----------------------------------------------------------------------------
(* Bounds of the model *)

MaxUse == 2
MaxRoutes == 2
MaxOps == 3
MaxGroups == 2
MaxHandle == 1
MaxMiddleware == 4
MaxHandlers == 66
MaxEnter == 2
MaxGoroutines == 2
MaxContexts == 3
MaxCalls == 4

(* Program constants *)

abortIndex == 63
StatusOK == 200
StatusMovedPermanently == 301
StatusTemporaryRedirect == 307
StatusBadRequest == 400
StatusUnauthorized == 401
StatusNotFound == 404
StatusMethodNotAllowed == 405
StatusGone == 410
StatusInternalServerError == 500

default404Body == "404 page not found"
default405Body == "405 method not allowed"

----------------------------------------------------------------------------
(* Sequences and paths *)

Last(s) == s[Len(s)]

Front(s) == SubSeq(s, 1, Len(s) - 1)

\* the elements of a sequence
SeqRange(q) == {q[j] : j \in 1..Len(q)}

IsWild(t) == t \in {":p", ":q"}

\* the catch-all segment "*filepath"
IsCatchAll(t) == t = "*f"

\* a mutant of HasWildcard: only the parameter segments are looked for
HasWildcardParam(path) == \E j \in 1..Len(path) : IsWild(path[j])

\* strings.Contains(path, ":") || strings.Contains(path, "*")
HasWildcard(path) == \E j \in 1..Len(path) : IsWild(path[j]) \/ IsCatchAll(path[j])

ToLower(ch) == IF ch = "A" THEN "a" ELSE IF ch = "B" THEN "b" ELSE ch

\* the number of leading characters of path before its first "/"
RECURSIVE SegLen(_)
SegLen(path) ==
    IF path = <<>> \/ Head(path) = "/" THEN 0 ELSE 1 + SegLen(Tail(path))

\* int8 increment of Context.index
Inc8(i) == IF i = 127 THEN -128 ELSE i + 1

----------------------------------------------------------------------------
(* The per-method route tree: lookup *)

\* a mutant of catchAllValue: the catch-all takes one segment
catchAllValueSegment(rest) == SubSeq(rest, 1, SegLen(rest))

\* the value of a catch-all parameter: the entire remainder of the path,
\* embedded slashes included
catchAllValue(rest) == rest

\* Walk pattern and path together; a parameter token takes the characters up
\* to the next "/" (at least one) as its value.
RECURSIVE MatchFrom(_, _, _)
MatchFrom(pat, path, ps) ==
    IF pat = <<>> THEN [ok |-> path = <<>>, ps |-> ps]
    ELSE IF IsCatchAll(Head(pat)) THEN
        [ok |-> TRUE, ps |-> Append(ps, [Key |-> Head(pat), Value |-> catchAllValue(path)])]
    ELSE IF IsWild(Head(pat)) THEN
        LET n == SegLen(path)
        IN  IF n = 0 THEN [ok |-> FALSE, ps |-> <<>>]
            ELSE MatchFrom(Tail(pat), SubSeq(path, n + 1, Len(path)),
                           Append(ps, [Key |-> Head(pat), Value |-> SubSeq(path, 1, n)]))
    ELSE IF path # <<>> /\ Head(path) = Head(pat)
        THEN MatchFrom(Tail(pat), Tail(path), ps)
        ELSE [ok |-> FALSE, ps |-> <<>>]

Hits(root, path) == {j \in 1..Len(root) : MatchFrom(root[j].path, path, <<>>).ok}

\* a match exists only after appending / stripping a trailing slash
TrailingSlash(root, path) ==
    \/ Hits(root, path \o <<"/">>) # {}
    \/ /\ Len(path) > 1
       /\ Last(path) = "/"
       /\ Hits(root, Front(path)) # {}

\* a mutant of getValue: the chain of the route registered first is returned
getValueFirstRoute(root, path) ==
    IF Hits(root, path) # {}
    THEN LET j == CHOOSE j \in Hits(root, path) : TRUE
         IN  [handlers |-> root[1].handlers,
              ps |-> MatchFrom(root[j].path, path, <<>>).ps,
              tsr |-> FALSE]
    ELSE [handlers |-> <<>>, ps |-> <<>>, tsr |-> TrailingSlash(root, path)]

\* node.getValue(path): (handlers, params, tsr)
getValue(root, path) ==
    IF Hits(root, path) # {}
    THEN LET j == CHOOSE j \in Hits(root, path) : TRUE
         IN  [handlers |-> root[j].handlers,
              ps |-> MatchFrom(root[j].path, path, <<>>).ps,
              tsr |-> FALSE]
    ELSE [handlers |-> <<>>, ps |-> <<>>, tsr |-> TrailingSlash(root, path)]

\* CleanPath: collapse runs of "/" and make the path start with "/"
RECURSIVE Collapse(_)
Collapse(path) ==
    IF Len(path) < 2 THEN path
    ELSE IF path[1] = "/" /\ path[2] = "/" THEN Collapse(Tail(path))
    ELSE <<Head(path)>> \o Collapse(Tail(path))

CleanPath(path) ==
    IF path = <<>> THEN <<"/">>
    ELSE IF Head(path) # "/" THEN Collapse(<<"/">> \o path)
    ELSE Collapse(path)

\* Walk pattern and path together ignoring case; the result is the path in
\* the registered spelling, parameter values kept as requested.
RECURSIVE FixFrom(_, _, _)
FixFrom(pat, path, out) ==
    IF pat = <<>> THEN [ok |-> path = <<>>, path |-> out]
    ELSE IF IsCatchAll(Head(pat)) THEN [ok |-> TRUE, path |-> out \o path]
    ELSE IF IsWild(Head(pat)) THEN
        LET n == SegLen(path)
        IN  IF n = 0 THEN [ok |-> FALSE, path |-> <<>>]
            ELSE FixFrom(Tail(pat), SubSeq(path, n + 1, Len(path)),
                         out \o SubSeq(path, 1, n))
    ELSE IF path # <<>> /\ ToLower(Head(path)) = ToLower(Head(pat))
        THEN FixFrom(Tail(pat), Tail(path), Append(out, Head(pat)))
        ELSE [ok |-> FALSE, path |-> <<>>]

\* the variants of path the case-insensitive lookup accepts
SlashVariants(path, fixTrailingSlash) ==
    {path} \cup
    (IF fixTrailingSlash
     THEN {path \o <<"/">>} \cup
          (IF Len(path) > 1 /\ Last(path) = "/" THEN {Front(path)} ELSE {})
     ELSE {})

\* node.findCaseInsensitivePath(path, fixTrailingSlash): the set of
\* corrected paths (empty when not found)
findCaseInsensitivePath(root, path, fixTrailingSlash) ==
    {FixFrom(root[j].path, v, <<>>).path :
        <<j, v>> \in {x \in (1..Len(root)) \X SlashVariants(path, fixTrailingSlash) :
                        FixFrom(root[x[1]].path, x[2], <<>>).ok}}

\* Router.allowed(path, reqMethod): the other methods that serve path
allowed(path, reqMethod) ==
    {m \in DOMAIN trees :
        m # reqMethod /\ getValue(trees[m], path).handlers # <<>>}

----------------------------------------------------------------------------
(* Handlers, frames, Context and response writer *)

RequestLogger == [kind |-> "logger", id |-> 0]

PanicRecovery == [kind |-> "recovery", id |-> 0]

Middleware(k) == [kind |-> "mw", id |-> k]

RouteHandler(k) == [kind |-> "route", id |-> k]

IsUser(h) == h.kind \in {"mw", "route"}

\* the values a handler may panic with: a string, a plain error, and
\* *net.OpError values wrapping an *os.SyscallError
PanicValues == {"string", "error", "broken pipe", "connection reset by peer",
                "connection refused"}

\* err.(error) succeeds
IsError(v) == v # "string"

\* a frame of the call stack: k is "dispatch" (handleHTTPRequest waiting for
\* c.Next), "serveError" (ServeError waiting for c.Next), "next" (the loop of
\* c.Next) or "handler" (handlers[i], after n operations, nx: Next called)
Frame(k, i, code) == [k |-> k, i |-> i, n |-> 0, nx |-> FALSE, code |-> code]

Top == stack[Len(stack)]

Pop == Front(stack)

SetTop(f) == [stack EXCEPT ![Len(stack)] = f]

TopHandler == c.handlers[Top.i + 1]

\* allocateContext: &Context{app: a}, every other field zero
allocateContext == [handlers |-> <<>>, index |-> 0, Params |-> <<>>, Errors |-> <<>>]

\* Context.reset
reset(ctx) == [handlers |-> <<>>, index |-> -1, Params |-> <<>>, Errors |-> <<>>]

\* a mutant of Abort: the cursor is moved back instead of past the chain
AbortRewinds(ctx) == [ctx EXCEPT !.index = -1]

\* Context.Abort
Abort(ctx) == [ctx EXCEPT !.index = abortIndex]

\* Context.Error
Error(ctx, err) == [ctx EXCEPT !.Errors = Append(@, [req |-> Request, err |-> err])]

\* responseWriter.reset
resetWriter == [status |-> StatusOK, written |-> FALSE]

\* a fresh http.ResponseWriter: nothing sent
NewResponse == [status |-> 0, by |-> "none", location |-> <<>>, body |-> FALSE,
                requestID |-> <<>>]

\* responseWriter.WriteHeader (Context.Status): the status is kept in the
\* wrapper until the headers are written
WriteHeader(wm, code) ==
    IF code > 0 /\ wm.status # code /\ ~wm.written
    THEN [wm EXCEPT !.status = code] ELSE wm

\* responseWriter.WriteHeaderNow, the wrapper's side
WriteHeaderNow(wm) == [wm EXCEPT !.written = TRUE]

\* a mutant of SendHeader: every call sends the status line
SendHeaderAgain(wm, resp, who) == [resp EXCEPT !.status = wm.status, !.by = who]

\* responseWriter.WriteHeaderNow, the wire's side: the first call sends the
\* status line, later calls send nothing
SendHeader(wm, resp, who) ==
    IF wm.written THEN resp ELSE [resp EXCEPT !.status = wm.status, !.by = who]

\* url.URL.String for a path and a raw query
URLString(path, query) == path \o (IF query = <<>> THEN <<>> ELSE <<"?">> \o query)

\* a registration call: the operation, the router it is called on, its
\* method string and its path (observation only)
Call(op, r, m, p) == [op |-> op, router |-> r, method |-> m, path |-> p]

NewHist == [outcome |-> "none", entered |-> <<>>, returned |-> <<>>,
            abortCalled |-> FALSE, lastStatus |-> 0, statusAfterNext |-> FALSE,
            wrote |-> FALSE, errs |-> 0, result |-> "none", panic |-> "none",
            panicAt |-> -1, failAt |-> -1, stale |-> FALSE, path |-> <<>>,
            call |-> Call("none", 0, <<>>, <<>>), lookups |-> <<>>, inbound |-> "",
            logged |-> FALSE]

----------------------------------------------------------------------------
(* Construction and registration *)

\* NewOptions
DefaultOptions ==
    [RedirectTrailingSlash |-> TRUE, RedirectFixedPath |-> FALSE,
     HandleMethodNotAllowed |-> FALSE, UseRequestLogger |-> TRUE,
     UsePanicRecovery |-> TRUE, RequestLoggerIgnore |-> <<>>,
     ServeStatic |-> FALSE, StaticPath |-> <<"/", "s">>]

\* the methods App.Any names, less TRACE
AllMethods == {"GET", "POST", "PUT", "PATCH", "DELETE", "HEAD", "OPTIONS", "CONNECT"}

\* no Paginator was made yet
NoPaginator == [made |-> FALSE]

\* the session's value for a key that is not set, and a nil interface
nil == "nil"

\* an empty map
EmptyValues == [k \in {} |-> nil]

\* a Session whose store is empty, before any call
NewSession ==
    [Values |-> EmptyValues, call |-> "none", name |-> "", value |-> nil, ret |-> nil,
     calls |-> 0]

\* a goroutine of the server that is not inside ServeHTTP
Parked == [pc |-> "parked", c |-> 0, r |-> 0, from |-> "none"]

Init ==
    /\ phase = "new"
    /\ opts = DefaultOptions
    /\ Handlers = <<>>
    /\ groups = <<>>
    /\ trees = [m \in AllMethods |-> <<>>]
    /\ pool = <<>>
    /\ c = allocateContext
    /\ Request = [Method |-> "GET", Path |-> <<"/">>, RawQuery |-> <<>>,
                  RequestID |-> ""]
    /\ writermem = resetWriter
    /\ w = NewResponse
    /\ stack = <<>>
    /\ panicking = "none"
    /\ hist = NewHist
    /\ goroutines = [g \in 1..MaxGoroutines |-> Parked]
    /\ heap = <<>>
    /\ paginator = NoPaginator
    /\ session = NewSession

\* a mutant of BuiltinMiddleware: PanicRecovery is installed before
\* RequestLogger
BuiltinMiddlewareRecoveryFirst(o) ==
    (IF o.UsePanicRecovery THEN <<PanicRecovery>> ELSE <<>>)
        \o (IF o.UseRequestLogger THEN <<RequestLogger>> ELSE <<>>)

\* the global middleware NewWithOptions installs
BuiltinMiddleware(o) ==
    (IF o.UseRequestLogger THEN <<RequestLogger>> ELSE <<>>)
        \o (IF o.UsePanicRecovery THEN <<PanicRecovery>> ELSE <<>>)

\* a mutant of Conflict: only the same path twice is refused
ConflictSamePath(p, q) == p = q

\* two patterns cannot live in one tree: the same path twice, or a wildcard
\* against anything else at the first place they differ
RECURSIVE Conflict(_, _)
Conflict(p, q) ==
    IF p = <<>> \/ q = <<>> THEN p = q
    ELSE IF Head(p) = Head(q) THEN Conflict(Tail(p), Tail(q))
    ELSE \/ IsWild(Head(p)) \/ IsWild(Head(q))
         \/ IsCatchAll(Head(p)) \/ IsCatchAll(Head(q))

\* the handler Static and StaticFile register
StaticHandler == [kind |-> "route", id |-> 0]

StripSlash(path) == IF Len(path) > 1 /\ Last(path) = "/" THEN Front(path) ELSE path

\* path.Join of two elements
pathJoin(a, b) == StripSlash(CleanPath(a \o <<"/">> \o b))

\* a mutant of joinPaths: the result of path.Join is returned as it is
joinPathsClean(absolutePath, relativePath) ==
    IF relativePath = <<>> THEN absolutePath ELSE pathJoin(absolutePath, relativePath)

\* joinPaths: the absolute path of relativePath under absolutePath; a
\* trailing slash of relativePath is kept
joinPaths(absolutePath, relativePath) ==
    IF relativePath = <<>> THEN absolutePath
    ELSE LET finalPath == pathJoin(absolutePath, relativePath)
         IN  IF Last(relativePath) = "/" /\ Last(finalPath) # "/"
             THEN finalPath \o <<"/">> ELSE finalPath

\* a pattern that cannot be added to the tree of method m
Conflicts(tr, m, p) == \E j \in 1..Len(tr[m]) : Conflict(tr[m][j].path, p)

\* the trees after GET and HEAD routes for pattern were added
StaticRoutes(tr, pattern, chain) ==
    [tr EXCEPT !["GET"] = Append(@, [path |-> pattern, handlers |-> chain]),
               !["HEAD"] = Append(@, [path |-> pattern, handlers |-> chain])]

\* Router.Static(relativePath, root) on a router with base path base and
\* handler list hs: "ok" with the new trees, or the panic
Static(tr, base, hs, relativePath) ==
    LET pattern == joinPaths(base, pathJoin(relativePath, <<"/", "*f">>))
    IN  IF HasWildcard(relativePath)
        THEN [result |-> "static with wildcard", trees |-> tr]
        ELSE IF Conflicts(tr, "GET", pattern) \/ Conflicts(tr, "HEAD", pattern)
        THEN [result |-> "conflict", trees |-> tr]
        ELSE [result |-> "ok", trees |-> StaticRoutes(tr, pattern, Append(hs, StaticHandler))]

\* Router.StaticFile(relativePath, filepath)
StaticFile(tr, base, hs, relativePath) ==
    LET pattern == joinPaths(base, relativePath)
    IN  IF HasWildcard(relativePath)
        THEN [result |-> "static with wildcard", trees |-> tr]
        ELSE IF Conflicts(tr, "GET", pattern) \/ Conflicts(tr, "HEAD", pattern)
        THEN [result |-> "conflict", trees |-> tr]
        ELSE [result |-> "ok", trees |-> StaticRoutes(tr, pattern, Append(hs, StaticHandler))]

\* the outcome of a registration call: the routes are added, or the call
\* panics and start-up is over
\* a mutant of Outcome: a registration error is reported and start-up goes on
OutcomeReturns(call, r) ==
    /\ trees' = r.trees
    /\ phase' = "setup"
    /\ hist' = [hist EXCEPT !.result = r.result, !.call = call]

Outcome(call, r) ==
    /\ trees' = r.trees
    /\ phase' = IF r.result = "ok" THEN "setup" ELSE "failed"
    /\ hist' = [hist EXCEPT !.result = r.result, !.call = call]

NewWithOptions(OptionSet) ==
    /\ phase = "new"
    /\ \E o \in OptionSet :
        /\ opts' = o
        /\ Handlers' = BuiltinMiddleware(o)
        /\ IF o.ServeStatic
           THEN Outcome(Call("Static", 0, <<>>, o.StaticPath),
                        Static(trees, <<"/">>, BuiltinMiddleware(o), o.StaticPath))
           ELSE /\ phase' = "setup"
                /\ UNCHANGED <<trees, hist>>
    /\ UNCHANGED <<pool, c, Request, writermem, w, stack, panicking>>
    /\ UNCHANGED <<groups, goroutines, heap, paginator, session>>

UserMiddleware == {j \in 1..Len(Handlers) : Handlers[j].kind = "mw"}

\* App.Use / Router.Use with one middleware
Use ==
    /\ phase = "setup"
    /\ Cardinality(UserMiddleware) < MaxUse
    /\ Handlers' = Append(Handlers, Middleware(Cardinality(UserMiddleware) + 1))
    /\ UNCHANGED <<phase, opts, trees, pool, c, Request, writermem, w, stack,
                   panicking, hist>>
    /\ UNCHANGED <<groups, goroutines, heap, paginator, session>>

RECURSIVE SumLen(_, _)
SumLen(f, S) ==
    IF S = {} THEN 0
    ELSE LET x == CHOOSE x \in S : TRUE IN Len(f[x]) + SumLen(f, S \ {x})

RouteCount == SumLen(trees, DOMAIN trees)

\* Router.Handle(method, path, handler): the chain is the middleware added
\* so far followed by the route's handler
Handle(MethodSet, PathSet) ==
    /\ phase = "setup"
    /\ RouteCount < MaxRoutes
    /\ \E m \in MethodSet, p \in PathSet :
        /\ \A j \in 1..Len(trees[m]) : ~Conflict(trees[m][j].path, p)
        /\ Len(Handlers) + 1 <= abortIndex
        /\ trees' = [trees EXCEPT ![m] =
                        Append(@, [path |-> p,
                                   handlers |-> Append(Handlers, RouteHandler(RouteCount + 1))])]
    /\ UNCHANGED <<phase, opts, Handlers, pool, c, Request, writermem, w, stack,
                   panicking, hist>>
    /\ UNCHANGED <<groups, goroutines, heap, paginator, session>>

----------------------------------------------------------------------------
(* Routers and groups *)

\* the routers: 0 is the application's router, j > 0 is groups[j]
Routers == 0..Len(groups)

BasePath(r) == IF r = 0 THEN <<"/">> ELSE groups[r].basePath

HandlersOf(r) == IF r = 0 THEN Handlers ELSE groups[r].Handlers

\* the middleware made so far: each func literal is a function of its own
MiddlewareIds ==
    {h.id : h \in {x \in UNION ({SeqRange(Handlers)} \cup {SeqRange(groups[j].Handlers) : j \in 1..Len(groups)}) :
                     x.kind = "mw"}}

\* n new middleware
NewMiddleware(n) == [j \in 1..n |-> Middleware(Cardinality(MiddlewareIds) + j)]

\* Router.Group(prefix, mw...): a sub-router with the joined base path and
\* the parent's handlers followed by mw
Group(PrefixSet, CountSet) ==
    /\ phase = "setup"
    /\ Len(groups) < MaxGroups
    /\ \E r \in Routers, prefix \in PrefixSet, n \in CountSet :
        /\ Cardinality(MiddlewareIds) + n <= MaxMiddleware
        /\ groups' = Append(groups,
                            [basePath |-> joinPaths(BasePath(r), prefix),
                             Handlers |-> HandlersOf(r) \o NewMiddleware(n),
                             parent |-> r, prefix |-> prefix,
                             inherited |-> Len(HandlersOf(r)), given |-> n,
                             used |-> 0])
    /\ UNCHANGED <<phase, opts, Handlers, trees, pool, c, Request, writermem, w,
                   stack, panicking, hist, goroutines, heap, paginator, session>>

\* Router.Use(mw...) on any router: append
UseOn(RouterSet, SizeSet, Limit) ==
    /\ phase = "setup"
    /\ \E r \in RouterSet \cap Routers, n \in SizeSet :
        /\ Cardinality(MiddlewareIds) + n <= Limit
        /\ IF r = 0
           THEN /\ Handlers' = Handlers \o NewMiddleware(n)
                /\ UNCHANGED groups
           ELSE /\ groups' = [groups EXCEPT ![r].Handlers = @ \o NewMiddleware(n),
                                            ![r].used = @ + n]
                /\ UNCHANGED Handlers
    /\ UNCHANGED <<phase, opts, trees, pool, c, Request, writermem, w, stack,
                   panicking, hist, goroutines, heap, paginator, session>>

UpperCase ==
    {"A", "B", "C", "D", "E", "F", "G", "H", "I", "J", "K", "L", "M", "N", "O", "P",
     "Q", "R", "S", "T", "U", "V", "W", "X", "Y", "Z"}

\* the method test of Router.Handle: one or more letters A-Z
validMethod(m) == m # <<>> /\ \A j \in 1..Len(m) : m[j] \in UpperCase

\* the method string with the letters of m
MethodName(m) ==
    CASE m = <<"G", "E", "T">> -> "GET"
      [] m = <<"P", "O", "S", "T">> -> "POST"
      [] m = <<"P", "U", "T">> -> "PUT"
      [] m = <<"P", "A", "T", "C", "H">> -> "PATCH"
      [] m = <<"D", "E", "L", "E", "T", "E">> -> "DELETE"
      [] m = <<"H", "E", "A", "D">> -> "HEAD"
      [] m = <<"O", "P", "T", "I", "O", "N", "S">> -> "OPTIONS"
      [] m = <<"C", "O", "N", "N", "E", "C", "T">> -> "CONNECT"

\* the routes registered with Handle
UserRouteCount ==
    SumLen([m \in DOMAIN trees |->
                SelectSeq(trees[m], LAMBDA rt : Last(rt.handlers) # StaticHandler)],
           DOMAIN trees)

\* a mutant of HandleResult: the chain of the route is its own handler
HandleResultOwnHandler(r, m, p) ==
    LET chain == <<RouteHandler(RouteCount + 1)>>
        abs == joinPaths(BasePath(r), p)
    IN  IF ~validMethod(m)
        THEN [result |-> "http method is not valid", trees |-> trees]
        ELSE IF abs = <<>> \/ Head(abs) # "/"
        THEN [result |-> "path must begin with /", trees |-> trees]
        ELSE IF Conflicts(trees, MethodName(m), abs)
        THEN [result |-> "conflict", trees |-> trees]
        ELSE [result |-> "ok",
              trees |-> [trees EXCEPT ![MethodName(m)] =
                           Append(@, [path |-> abs, handlers |-> chain])]]

\* Router.Handle(method, relativePath, handler) on any router: check the
\* method, combine the handlers, add the route
HandleResult(r, m, p) ==
    LET chain == Append(HandlersOf(r), RouteHandler(RouteCount + 1))
        abs == joinPaths(BasePath(r), p)
    IN  IF ~validMethod(m)
        THEN [result |-> "http method is not valid", trees |-> trees]
        ELSE IF Len(chain) > abortIndex
        THEN [result |-> "too many handlers", trees |-> trees]
        ELSE IF abs = <<>> \/ Head(abs) # "/"
        THEN [result |-> "path must begin with /", trees |-> trees]
        ELSE IF Conflicts(trees, MethodName(m), abs)
        THEN [result |-> "conflict", trees |-> trees]
        ELSE [result |-> "ok",
              trees |-> [trees EXCEPT ![MethodName(m)] =
                           Append(@, [path |-> abs, handlers |-> chain])]]

\* the route of a controller: GET ":q" below the controller's path
ControllerRoute == <<"/", ":q">>

\* Router.Attach(path, routes): the controller's routes are added under path
Attach(path) ==
    LET abs == joinPaths(path, ControllerRoute)
    IN  IF Conflicts(trees, "GET", abs)
        THEN [result |-> "conflict", trees |-> trees]
        ELSE [result |-> "ok",
              trees |-> [trees EXCEPT !["GET"] =
                           Append(@, [path |-> abs,
                                      handlers |-> Append(Handlers, RouteHandler(RouteCount + 1))])]]

\* App.RegisterController: the controller's path is its version followed by
\* its prefix and has to start with "/"
RegisterControllerResult(version, prefix) ==
    LET path == version \o prefix
    IN  IF path = <<>> \/ Head(path) # "/"
        THEN [result |-> "controller path has to start with /", trees |-> trees]
        ELSE Attach(path)

RegisterController(VersionSet, PrefixSet) ==
    /\ phase = "setup"
    /\ UserRouteCount < MaxRoutes
    /\ \E version \in VersionSet, prefix \in PrefixSet :
        Outcome(Call("RegisterController", 0, <<>>, version \o prefix),
                RegisterControllerResult(version, prefix))
    /\ UNCHANGED <<opts, Handlers, groups, pool, c, Request, writermem, w, stack,
                   panicking, goroutines, heap, paginator, session>>

HandleOn(RouterSet, MethodSet, PathSet, Limit) ==
    /\ phase = "setup"
    /\ UserRouteCount < Limit
    /\ \E r \in RouterSet \cap Routers, m \in MethodSet, p \in PathSet :
        Outcome(Call("Handle", r, m, p), HandleResult(r, m, p))
    /\ UNCHANGED <<opts, Handlers, groups, pool, c, Request, writermem, w, stack,
                   panicking, goroutines, heap, paginator, session>>

\* Router.Static and Router.StaticFile on any router
StaticOn(RouterSet, PrefixSet) ==
    /\ phase = "setup"
    /\ \E r \in RouterSet \cap Routers, p \in PrefixSet :
        \/ Outcome(Call("Static", r, <<>>, p),
                   Static(trees, BasePath(r), HandlersOf(r), p))
        \/ Outcome(Call("StaticFile", r, <<>>, p),
                   StaticFile(trees, BasePath(r), HandlersOf(r), p))
    /\ UNCHANGED <<opts, Handlers, groups, pool, c, Request, writermem, w, stack,
                   panicking, goroutines, heap, paginator, session>>

----------------------------------------------------------------------------
(* ServeHTTP and the dispatcher *)

\* sync.Pool.Get: a Context put back earlier, or a new one
PoolGet == {pool[j] : j \in 1..Len(pool)} \cup {allocateContext}

\* a mutant of AcquireContext: ServeHTTP does not call c.reset
AcquireContextNoReset(got) == got

\* ServeHTTP: the Context as handleHTTPRequest receives it
AcquireContext(got) == reset(got)

\* ServeHTTP up to the call of handleHTTPRequest
ServeHTTP(RequestSet) ==
    /\ phase \in {"setup", "idle"}
    /\ \E r \in RequestSet, got \in PoolGet :
        /\ Request' = r
        /\ c' = AcquireContext(got)
        /\ hist' = [NewHist EXCEPT !.stale = (got.Params # <<>> /\ got.Errors # <<>>),
                                   !.path = r.Path, !.inbound = r.RequestID]
    /\ pool' = <<>>
    /\ writermem' = resetWriter
    /\ w' = NewResponse
    /\ stack' = <<>>
    /\ phase' = "dispatch"
    /\ UNCHANGED <<opts, Handlers, trees, panicking>>
    /\ UNCHANGED <<groups, goroutines, heap, paginator, session>>

\* a mutant of redirectCode: HEAD is redirected as GET is
redirectCodeGetLike(httpMethod) ==
    IF httpMethod \notin {"GET", "HEAD"} THEN StatusTemporaryRedirect
    ELSE StatusMovedPermanently

\* the redirect status handleHTTPRequest picks
redirectCode(httpMethod) ==
    IF httpMethod # "GET" THEN StatusTemporaryRedirect ELSE StatusMovedPermanently

\* a mutant of redirectPath: the slash is always appended
redirectPathAppends(path) == path \o <<"/">>

\* the path a trailing-slash redirect sends the client to
redirectPath(path) ==
    IF Len(path) > 1 /\ Last(path) = "/" THEN Front(path) ELSE path \o <<"/">>

\* a mutant of Branch: the 405 test does not read HandleMethodNotAllowed
BranchAlwaysDetects(httpMethod, path) ==
    LET root == trees[httpMethod]
        v == getValue(root, path)
    IN  IF root # <<>> /\ v.handlers # <<>> THEN "match"
        ELSE IF /\ root # <<>>
                /\ httpMethod # "CONNECT"
                /\ path # <<"/">>
                /\ v.tsr
                /\ opts.RedirectTrailingSlash
            THEN "tsr"
        ELSE IF /\ root # <<>>
                /\ httpMethod # "CONNECT"
                /\ path # <<"/">>
                /\ opts.RedirectFixedPath
                /\ findCaseInsensitivePath(root, CleanPath(path),
                                           opts.RedirectTrailingSlash) # {}
            THEN "fixed"
        ELSE IF allowed(path, httpMethod) # {}
            THEN "405"
        ELSE "404"

\* a mutant of Branch: the fixed-path lookup is tried before the
\* trailing-slash redirect
BranchFixedFirst(httpMethod, path) ==
    LET root == trees[httpMethod]
        v == getValue(root, path)
    IN  IF root # <<>> /\ v.handlers # <<>> THEN "match"
        ELSE IF /\ root # <<>>
                /\ httpMethod # "CONNECT"
                /\ path # <<"/">>
                /\ opts.RedirectFixedPath
                /\ findCaseInsensitivePath(root, CleanPath(path),
                                           opts.RedirectTrailingSlash) # {}
            THEN "fixed"
        ELSE IF /\ root # <<>>
                /\ httpMethod # "CONNECT"
                /\ path # <<"/">>
                /\ v.tsr
                /\ opts.RedirectTrailingSlash
            THEN "tsr"
        ELSE IF opts.HandleMethodNotAllowed /\ allowed(path, httpMethod) # {}
            THEN "405"
        ELSE "404"

\* a mutant of Lookups: the fixed-path lookup does not read RedirectFixedPath
LookupsAlwaysFixed(httpMethod, path) ==
    LET root == trees[httpMethod]
        v == getValue(root, path)
        last == IF opts.HandleMethodNotAllowed THEN <<"allowed">> ELSE <<>>
    IN  IF root = <<>> THEN last
        ELSE IF v.handlers # <<>> THEN <<"getValue">>
        ELSE IF httpMethod # "CONNECT" /\ path # <<"/">>
        THEN IF v.tsr /\ opts.RedirectTrailingSlash THEN <<"getValue">>
             ELSE IF findCaseInsensitivePath(root, CleanPath(path),
                                             opts.RedirectTrailingSlash) # {}
                  THEN <<"getValue", "findCaseInsensitivePath">>
                  ELSE <<"getValue", "findCaseInsensitivePath">> \o last
        ELSE <<"getValue">> \o last

\* the lookups handleHTTPRequest makes for a request, in the order of the
\* calls: root.getValue, root.findCaseInsensitivePath, a.router.allowed
Lookups(httpMethod, path) ==
    LET root == trees[httpMethod]
        v == getValue(root, path)
        last == IF opts.HandleMethodNotAllowed THEN <<"allowed">> ELSE <<>>
    IN  IF root = <<>> THEN last
        ELSE IF v.handlers # <<>> THEN <<"getValue">>
        ELSE IF httpMethod # "CONNECT" /\ path # <<"/">>
        THEN IF v.tsr /\ opts.RedirectTrailingSlash THEN <<"getValue">>
             ELSE IF opts.RedirectFixedPath
             THEN IF findCaseInsensitivePath(root, CleanPath(path),
                                             opts.RedirectTrailingSlash) # {}
                  THEN <<"getValue", "findCaseInsensitivePath">>
                  ELSE <<"getValue", "findCaseInsensitivePath">> \o last
             ELSE <<"getValue">> \o last
        ELSE <<"getValue">> \o last

\* a mutant of Branch: CONNECT and "/" are redirected as the others are
BranchRedirectsAll(httpMethod, path) ==
    LET root == trees[httpMethod]
        v == getValue(root, path)
    IN  IF root # <<>> /\ v.handlers # <<>> THEN "match"
        ELSE IF /\ root # <<>>
                /\ v.tsr
                /\ opts.RedirectTrailingSlash
            THEN "tsr"
        ELSE IF /\ root # <<>>
                /\ opts.RedirectFixedPath
                /\ findCaseInsensitivePath(root, CleanPath(path),
                                           opts.RedirectTrailingSlash) # {}
            THEN "fixed"
        ELSE IF opts.HandleMethodNotAllowed /\ allowed(path, httpMethod) # {}
            THEN "405"
        ELSE "404"

\* the branch handleHTTPRequest takes for a request
Branch(httpMethod, path) ==
    LET root == trees[httpMethod]
        v == getValue(root, path)
    IN  IF root # <<>> /\ v.handlers # <<>> THEN "match"
        ELSE IF /\ root # <<>>
                /\ httpMethod # "CONNECT"
                /\ path # <<"/">>
                /\ v.tsr
                /\ opts.RedirectTrailingSlash
            THEN "tsr"
        ELSE IF /\ root # <<>>
                /\ httpMethod # "CONNECT"
                /\ path # <<"/">>
                /\ opts.RedirectFixedPath
                /\ findCaseInsensitivePath(root, CleanPath(path),
                                           opts.RedirectTrailingSlash) # {}
            THEN "fixed"
        ELSE IF opts.HandleMethodNotAllowed /\ allowed(path, httpMethod) # {}
            THEN "405"
        ELSE "404"

\* http.Redirect followed by c.writermem.WriteHeaderNow: the Location header
\* (cleaned, trailing slash and query kept), the status and, for GET, a body
Redirect(resp, httpMethod, path, query, code) ==
    [resp EXCEPT !.status = code, !.by = "redirect",
                 !.location = URLString(Collapse(path), query),
                 !.body = (httpMethod = "GET")]

\* a mutant of HandleMatch: the global middleware list is bound instead of
\* the matched route's chain
HandleMatchGlobalChain ==
    LET v == getValue(trees[Request.Method], Request.Path)
    IN  /\ c' = [c EXCEPT !.handlers = Handlers, !.Params = v.ps,
                          !.index = Inc8(c.index)]
        /\ stack' = <<Frame("dispatch", 0, 0), Frame("next", 0, 0)>>
        /\ phase' = "chain"
        /\ hist' = [hist EXCEPT !.outcome = "match"]
        /\ UNCHANGED <<Request, writermem, w>>

\* a mutant of HandleMatch: the headers are flushed before the chain runs
HandleMatchFlushFirst ==
    LET v == getValue(trees[Request.Method], Request.Path)
    IN  /\ c' = [c EXCEPT !.handlers = v.handlers, !.Params = v.ps,
                          !.index = Inc8(c.index)]
        /\ stack' = <<Frame("dispatch", 0, 0), Frame("next", 0, 0)>>
        /\ phase' = "chain"
        /\ hist' = [hist EXCEPT !.outcome = "match"]
        /\ w' = SendHeader(writermem, w, "dispatcher")
        /\ writermem' = WriteHeaderNow(writermem)
        /\ UNCHANGED Request

\* exact match: bind the chain and the params, call c.Next
HandleMatch ==
    LET v == getValue(trees[Request.Method], Request.Path)
    IN  /\ c' = [c EXCEPT !.handlers = v.handlers, !.Params = v.ps,
                          !.index = Inc8(c.index)]
        /\ stack' = <<Frame("dispatch", 0, 0), Frame("next", 0, 0)>>
        /\ phase' = "chain"
        /\ hist' = [hist EXCEPT !.outcome = "match",
                                !.lookups = Lookups(Request.Method, Request.Path)]
        /\ UNCHANGED <<Request, writermem, w>>

\* trailing-slash redirect
HandleTSR ==
    LET to == redirectPath(Request.Path)
    IN  /\ Request' = [Request EXCEPT !.Path = to]
        /\ w' = Redirect(w, Request.Method, to, Request.RawQuery,
                         redirectCode(Request.Method))
        /\ writermem' = WriteHeaderNow(WriteHeader(writermem, redirectCode(Request.Method)))
        /\ phase' = "handled"
        /\ hist' = [hist EXCEPT !.outcome = "tsr",
                                !.lookups = Lookups(Request.Method, Request.Path)]
        /\ UNCHANGED <<c, stack>>

\* fixed-path redirect
HandleFixed ==
    \E to \in findCaseInsensitivePath(trees[Request.Method], CleanPath(Request.Path),
                                      opts.RedirectTrailingSlash) :
        /\ Request' = [Request EXCEPT !.Path = to]
        /\ w' = Redirect(w, Request.Method, to, Request.RawQuery,
                         redirectCode(Request.Method))
        /\ writermem' = WriteHeaderNow(WriteHeader(writermem, redirectCode(Request.Method)))
        /\ phase' = "handled"
        /\ hist' = [hist EXCEPT !.outcome = "fixed",
                                !.lookups = Lookups(Request.Method, Request.Path)]
        /\ UNCHANGED <<c, stack>>

\* the first call of ServeError by a handler that has called Abort, has not
\* called Next, and runs before the headers are sent
FailsChain(ctx) ==
    /\ hist.failAt < 0
    /\ stack # <<>>
    /\ panicking = "none"
    /\ Top.k = "handler"
    /\ ~Top.nx
    /\ ctx.index = abortIndex
    /\ ~writermem.written

\* Context.ServeError up to its call of c.Next: record the error, set the
\* status, run what is left of the chain
ServeErrorBegin(ctx, code, err) ==
    /\ c' = [Error(ctx, err) EXCEPT !.index = Inc8(ctx.index)]
    /\ writermem' = WriteHeader(writermem, code)
    /\ hist' = [hist EXCEPT !.errs = @ + 1, !.lastStatus = code,
                            !.outcome = IF @ = "none" THEN
                                            (IF code = StatusMethodNotAllowed
                                             THEN "405" ELSE "404")
                                        ELSE @,
                            !.failAt = IF FailsChain(ctx) THEN Top.i ELSE @,
                            !.lookups = IF phase = "dispatch"
                                        THEN Lookups(Request.Method, Request.Path)
                                        ELSE @]

\* a mutant of HandleMiss: the error is served without the global middleware
HandleMissNoChain(code, body) ==
    /\ ServeErrorBegin([c EXCEPT !.handlers = <<>>], code, body)
    /\ stack' = <<Frame("serveError", 0, code), Frame("next", 0, 0)>>
    /\ phase' = "chain"
    /\ UNCHANGED <<Request, w>>

\* no route: the global middleware and a 405 or a 404
HandleMiss(code, body) ==
    /\ ServeErrorBegin([c EXCEPT !.handlers = Handlers], code, body)
    /\ stack' = <<Frame("serveError", 0, code), Frame("next", 0, 0)>>
    /\ phase' = "chain"
    /\ UNCHANGED <<Request, w>>

\* a mutant of handleHTTPRequest: on a miss the global handler list is moved
\* to the Context
handleHTTPRequestMovesChain ==
    /\ phase = "dispatch"
    /\ LET b == Branch(Request.Method, Request.Path)
       IN  /\ \/ b = "match" /\ HandleMatch
              \/ b = "tsr" /\ HandleTSR
              \/ b = "fixed" /\ HandleFixed
              \/ b = "405" /\ HandleMiss(StatusMethodNotAllowed, default405Body)
              \/ b = "404" /\ HandleMiss(StatusNotFound, default404Body)
           /\ Handlers' = IF b \in {"405", "404"} THEN <<>> ELSE Handlers
    /\ UNCHANGED <<opts, trees, pool, panicking>>
    /\ UNCHANGED <<groups, goroutines, heap, paginator, session>>

handleHTTPRequest ==
    /\ phase = "dispatch"
    /\ LET b == Branch(Request.Method, Request.Path)
       IN  \/ b = "match" /\ HandleMatch
           \/ b = "tsr" /\ HandleTSR
           \/ b = "fixed" /\ HandleFixed
           \/ b = "405" /\ HandleMiss(StatusMethodNotAllowed, default405Body)
           \/ b = "404" /\ HandleMiss(StatusNotFound, default404Body)
    /\ UNCHANGED <<opts, Handlers, trees, pool, panicking>>
    /\ UNCHANGED <<groups, goroutines, heap, paginator, session>>

\* handleHTTPRequest after c.Next returned: flush the headers, return
DispatchFinish ==
    /\ phase = "chain"
    /\ panicking = "none"
    /\ Top.k = "dispatch"
    /\ w' = SendHeader(writermem, w, "dispatcher")
    /\ writermem' = WriteHeaderNow(writermem)
    /\ stack' = <<>>
    /\ phase' = "handled"
    /\ UNCHANGED <<opts, Handlers, trees, pool, c, Request, panicking, hist>>
    /\ UNCHANGED <<groups, goroutines, heap, paginator, session>>

\* a mutant of ServeErrorFinish: the context is not marked aborted
ServeErrorFinishNoAbort ==
    /\ phase = "chain"
    /\ panicking = "none"
    /\ Top.k = "serveError"
    /\ w' = [SendHeader(writermem, w, "serveError") EXCEPT
                !.body = IF writermem.written THEN @ ELSE TRUE]
    /\ writermem' = WriteHeaderNow(writermem)
    /\ stack' = Pop
    /\ phase' = IF Len(stack) = 1 THEN "handled" ELSE phase
    /\ hist' = [hist EXCEPT !.abortCalled = TRUE]
    /\ UNCHANGED <<opts, Handlers, trees, pool, c, Request, panicking>>
    /\ UNCHANGED <<groups, goroutines, heap, paginator, session>>

\* Context.ServeError after c.Next returned: mark aborted, write the status
\* (and the body) unless the headers are already sent
ServeErrorFinish ==
    /\ phase = "chain"
    /\ panicking = "none"
    /\ Top.k = "serveError"
    /\ c' = Abort(c)
    /\ w' = [SendHeader(writermem, w, "serveError") EXCEPT
                !.body = IF writermem.written THEN @ ELSE TRUE]
    /\ writermem' = WriteHeaderNow(writermem)
    /\ stack' = Pop
    /\ phase' = IF Len(stack) = 1 THEN "handled" ELSE phase
    /\ hist' = [hist EXCEPT !.abortCalled = TRUE]
    /\ UNCHANGED <<opts, Handlers, trees, pool, Request, panicking>>
    /\ UNCHANGED <<groups, goroutines, heap, paginator, session>>

\* a mutant of Put: the Context is reset when it is put back
PutReset ==
    /\ phase = "handled"
    /\ c' = reset(c)
    /\ pool' = <<reset(c)>>
    /\ phase' = "idle"
    /\ hist' = [hist EXCEPT !.result = "returned"]
    /\ UNCHANGED <<opts, Handlers, trees, Request, writermem, w, stack, panicking>>
    /\ UNCHANGED <<groups, goroutines, heap, paginator, session>>

\* ServeHTTP after handleHTTPRequest returned: sync.Pool.Put
Put ==
    /\ phase = "handled"
    /\ pool' = <<c>>
    /\ phase' = "idle"
    /\ hist' = [hist EXCEPT !.result = "returned"]
    /\ UNCHANGED <<opts, Handlers, trees, c, Request, writermem, w, stack, panicking>>
    /\ UNCHANGED <<groups, goroutines, heap, paginator, session>>

----------------------------------------------------------------------------
(* Context.Next and the handlers *)

\* the loop of c.Next: index is inside the chain, call handlers[index]
EnterHandler ==
    /\ phase = "chain"
    /\ panicking = "none"
    /\ Top.k = "next"
    /\ c.index < Len(c.handlers)
    /\ Cardinality({j \in 1..Len(hist.entered) : hist.entered[j] = c.index}) < MaxEnter
    /\ IF c.index < 0
       THEN /\ panicking' = "error"
            /\ hist' = IF hist.panic # "none" THEN hist
                       ELSE [hist EXCEPT !.panic = "error", !.panicAt = c.index]
            /\ UNCHANGED stack
       ELSE /\ stack' = Append(stack, Frame("handler", c.index, 0))
            /\ hist' = [hist EXCEPT !.entered = Append(@, c.index)]
            /\ UNCHANGED panicking
    /\ UNCHANGED <<phase, opts, Handlers, trees, pool, c, Request, writermem, w>>
    /\ UNCHANGED <<groups, goroutines, heap, paginator, session>>

\* the loop of c.Next: index is past the chain, Next returns to its caller
NextReturn ==
    /\ phase = "chain"
    /\ panicking = "none"
    /\ Top.k = "next"
    /\ c.index >= Len(c.handlers)
    /\ stack' = Pop
    /\ UNCHANGED <<phase, opts, Handlers, trees, pool, c, Request, writermem, w,
                   panicking, hist>>
    /\ UNCHANGED <<groups, goroutines, heap, paginator, session>>

\* a handler returns to the loop of c.Next, which increments index
ReturnToLoop ==
    /\ stack' = Pop
    /\ c' = [c EXCEPT !.index = Inc8(c.index)]
    /\ hist' = [hist EXCEPT !.returned = Append(@, Top.i)]

\* a handler calls c.Next
CallNext ==
    /\ stack' = Append(SetTop([Top EXCEPT !.n = @ + 1, !.nx = TRUE]), Frame("next", 0, 0))
    /\ c' = [c EXCEPT !.index = Inc8(c.index)]

UserOps ==
    {[op |-> "Next", arg |-> 0], [op |-> "Abort", arg |-> 0], [op |-> "Write", arg |-> 0],
     [op |-> "Status", arg |-> StatusUnauthorized], [op |-> "Status", arg |-> StatusGone]}
    \cup {[op |-> "panic", arg |-> v] : v \in PanicValues}

\* one operation of a user handler (a middleware or a route's handler)
HandlerOp(OpSet) ==
    /\ phase = "chain"
    /\ panicking = "none"
    /\ Top.k = "handler"
    /\ IsUser(TopHandler)
    /\ Top.n < MaxOps
    /\ \E o \in OpSet :
        \/ /\ o.op = "Next"
           /\ CallNext
           /\ UNCHANGED <<writermem, w, panicking, hist>>
        \/ /\ o.op = "Abort"
           /\ c' = Abort(c)
           /\ stack' = SetTop([Top EXCEPT !.n = @ + 1])
           /\ hist' = [hist EXCEPT !.abortCalled = TRUE]
           /\ UNCHANGED <<writermem, w, panicking>>
        \/ /\ o.op = "Status"
           /\ writermem' = WriteHeader(writermem, o.arg)
           /\ stack' = SetTop([Top EXCEPT !.n = @ + 1])
           /\ hist' = [hist EXCEPT !.lastStatus = o.arg, !.statusAfterNext = Top.nx]
           /\ UNCHANGED <<c, w, panicking>>
        \/ /\ o.op = "Write"
           /\ w' = [SendHeader(writermem, w, "handler") EXCEPT !.body = TRUE]
           /\ writermem' = WriteHeaderNow(writermem)
           /\ stack' = SetTop([Top EXCEPT !.n = @ + 1])
           /\ hist' = [hist EXCEPT !.wrote = TRUE]
           /\ UNCHANGED <<c, panicking>>
        \/ /\ o.op = "ServeError"
           /\ ServeErrorBegin(c, o.arg, "foo")
           /\ stack' = SetTop([Top EXCEPT !.n = @ + 1])
                            \o <<Frame("serveError", 0, o.arg), Frame("next", 0, 0)>>
           /\ UNCHANGED <<w, panicking>>
        \/ /\ o.op = "panic"
           /\ panicking' = o.arg
           /\ hist' = IF hist.panic # "none" THEN hist
                      ELSE [hist EXCEPT !.panic = o.arg, !.panicAt = Top.i]
           /\ UNCHANGED <<c, stack, writermem, w>>
    /\ UNCHANGED <<phase, opts, Handlers, trees, pool, Request>>
    /\ UNCHANGED <<groups, goroutines, heap, paginator, session>>

\* a user handler returns
HandlerReturn ==
    /\ phase = "chain"
    /\ panicking = "none"
    /\ Top.k = "handler"
    /\ IsUser(TopHandler)
    /\ ReturnToLoop
    /\ UNCHANGED <<phase, opts, Handlers, trees, pool, Request, writermem, w, panicking>>
    /\ UNCHANGED <<groups, goroutines, heap, paginator, session>>

\* the RequestLogger middleware: set X-Request-ID, call c.Next, log, return
\* strings.Join(list, ",")
RECURSIVE Join(_)
Join(list) ==
    IF list = <<>> THEN <<>>
    ELSE IF Len(list) = 1 THEN list[1]
    ELSE list[1] \o <<",">> \o Join(Tail(list))

\* strings.Contains(str, substr)
Contains(str, substr) ==
    \E j \in 0..(Len(str) - Len(substr)) : SubSeq(str, j + 1, j + Len(substr)) = substr

\* the id xid.New() makes
NewRequestID == "xid"

\* a mutant of Ignored: a request is ignored when its path is an entry of
\* the list
IgnoredEntry(path) == path \in SeqRange(opts.RequestLoggerIgnore)

\* RequestLogger's test of the ignore list
Ignored(path) == Contains(Join(opts.RequestLoggerIgnore), path)

\* RequestLogger after c.Next has returned: the fields are logged with
\* c.Logger().Info and the handler returns to the loop of c.Next
LogAndReturn ==
    /\ stack' = Pop
    /\ c' = [c EXCEPT !.index = Inc8(c.index)]
    /\ hist' = [hist EXCEPT !.returned = Append(@, Top.i), !.logged = TRUE]

\* a mutant of RequestLoggerStep: the request id is set before the ignore
\* list is read
RequestLoggerStepIdFirst ==
    /\ phase = "chain"
    /\ panicking = "none"
    /\ Top.k = "handler"
    /\ TopHandler.kind = "logger"
    /\ IF Top.n = 0
       THEN LET requestID == IF Request.RequestID = "" THEN NewRequestID
                             ELSE Request.RequestID
            IN  /\ Request' = [Request EXCEPT !.RequestID = requestID]
                /\ w' = [w EXCEPT !.requestID = Append(@, requestID)]
                /\ IF Ignored(Request.Path)
                   THEN ReturnToLoop
                   ELSE CallNext /\ UNCHANGED hist
       ELSE /\ LogAndReturn
            /\ UNCHANGED <<w, Request>>
    /\ UNCHANGED <<phase, opts, Handlers, trees, pool, writermem, panicking>>
    /\ UNCHANGED <<groups, goroutines, heap, paginator, session>>

\* the RequestLogger middleware: up to its call of c.Next, then from the
\* return of c.Next to its own return
RequestLoggerStep ==
    /\ phase = "chain"
    /\ panicking = "none"
    /\ Top.k = "handler"
    /\ TopHandler.kind = "logger"
    /\ IF Top.n = 0
       THEN IF Ignored(Request.Path)
            THEN /\ ReturnToLoop
                 /\ UNCHANGED <<w, Request>>
            ELSE LET requestID == IF Request.RequestID = "" THEN NewRequestID
                                  ELSE Request.RequestID
                 IN  /\ Request' = [Request EXCEPT !.RequestID = requestID]
                     /\ w' = [w EXCEPT !.requestID = Append(@, requestID)]
                     /\ CallNext
                     /\ UNCHANGED hist
       ELSE /\ LogAndReturn
            /\ UNCHANGED <<w, Request>>
    /\ UNCHANGED <<phase, opts, Handlers, trees, pool, writermem, panicking>>
    /\ UNCHANGED <<groups, goroutines, heap, paginator, session>>

\* the PanicRecovery middleware when nothing panics: defer, call c.Next,
\* return (also after its deferred function served an error)
PanicRecoveryStep ==
    /\ phase = "chain"
    /\ panicking = "none"
    /\ Top.k = "handler"
    /\ TopHandler.kind = "recovery"
    /\ IF Top.n = 0
       THEN /\ CallNext
            /\ UNCHANGED hist
       ELSE ReturnToLoop
    /\ UNCHANGED <<phase, opts, Handlers, trees, pool, Request, writermem, w, panicking>>
    /\ UNCHANGED <<groups, goroutines, heap, paginator, session>>

\* the frames a panic unwinds: up to PanicRecovery waiting in c.Next, whose
\* deferred function recovers, or all of them
RECURSIVE Unwound(_)
Unwound(stk) ==
    IF stk = <<>> THEN stk
    ELSE LET f == stk[Len(stk)]
         IN  IF f.k = "handler" /\ c.handlers[f.i + 1].kind = "recovery" /\ f.n = 1
             THEN stk ELSE Unwound(Front(stk))

\* the test PanicRecovery's deferred function makes on the recovered value
brokenPipe(err) == err \in {"broken pipe", "connection reset by peer"}

\* PanicRecovery's deferred function with a recovered value
Recover ==
    /\ phase = "chain"
    /\ panicking # "none"
    /\ Unwound(stack) # <<>>
    /\ LET stk == Unwound(stack)
           f == stk[Len(stk)]
       IN  IF brokenPipe(panicking)
           THEN /\ c' = [Abort(Error(c, panicking)) EXCEPT !.index = Inc8(abortIndex)]
                /\ stack' = Front(stk)
                /\ hist' = [hist EXCEPT !.errs = @ + 1, !.abortCalled = TRUE,
                                        !.returned = Append(@, f.i)]
                /\ panicking' = "none"
                /\ UNCHANGED writermem
           ELSE IF IsError(panicking)
           THEN /\ ServeErrorBegin(c, StatusInternalServerError, panicking)
                /\ stack' = Front(stk) \o <<[f EXCEPT !.n = 2],
                                            Frame("serveError", 0, StatusInternalServerError),
                                            Frame("next", 0, 0)>>
                /\ panicking' = "none"
           ELSE /\ panicking' = "type assertion"
                /\ stack' = Front(stk)
                /\ UNCHANGED <<c, writermem, hist>>
    /\ UNCHANGED <<phase, opts, Handlers, trees, pool, Request, w>>
    /\ UNCHANGED <<groups, goroutines, heap, paginator, session>>

\* a panic nobody recovers leaves ServeHTTP: the Context is never put back
Crash ==
    /\ phase = "chain"
    /\ panicking # "none"
    /\ Unwound(stack) = <<>>
    /\ stack' = <<>>
    /\ panicking' = "none"
    /\ phase' = "idle"
    /\ hist' = [hist EXCEPT !.result = "panicked"]
    /\ UNCHANGED <<opts, Handlers, trees, pool, c, Request, writermem, w>>
    /\ UNCHANGED <<groups, goroutines, heap, paginator, session>>

----------------------------------------------------------------------------
(* Specifications *)

BOOL == {TRUE, FALSE}

AllOptions ==
    [RedirectTrailingSlash : BOOL, RedirectFixedPath : BOOL,
     HandleMethodNotAllowed : BOOL, UseRequestLogger : BOOL, UsePanicRecovery : BOOL,
     RequestLoggerIgnore : {DefaultOptions.RequestLoggerIgnore},
     ServeStatic : {DefaultOptions.ServeStatic}, StaticPath : {DefaultOptions.StaticPath}]

\* middleware and handlers of every behaviour, one route, default routing
ChainOptions ==
    {o \in AllOptions : /\ o.RedirectTrailingSlash = DefaultOptions.RedirectTrailingSlash
                        /\ o.RedirectFixedPath = DefaultOptions.RedirectFixedPath
                        /\ o.HandleMethodNotAllowed = DefaultOptions.HandleMethodNotAllowed}

ChainPaths == {<<"/", ":p">>}

ChainRequests ==
    [Method : {"GET"}, Path : {<<"/", "a">>, <<"/">>}, RawQuery : {<<>>},
     RequestID : {""}]

Next ==
    \/ NewWithOptions(ChainOptions)
    \/ Use
    \/ Handle({"GET"}, ChainPaths)
    \/ ServeHTTP(ChainRequests)
    \/ handleHTTPRequest
    \/ EnterHandler
    \/ NextReturn
    \/ HandlerOp(UserOps)
    \/ HandlerReturn
    \/ RequestLoggerStep
    \/ PanicRecoveryStep
    \/ Recover
    \/ Crash
    \/ DispatchFinish
    \/ ServeErrorFinish
    \/ Put

Spec == Init /\ [][Next]_vars

\* routes and requests of every shape, handlers that only return
RouteOptions ==
    {o \in AllOptions : /\ ~o.UseRequestLogger
                        /\ o.UsePanicRecovery = DefaultOptions.UsePanicRecovery}

RouteMethods == {"GET", "POST", "CONNECT"}

RoutePaths == {<<"/", "a">>, <<"/", "a", "/">>, <<"/", "A">>, <<"/", ":p">>}

RouteRequests ==
    [Method : RouteMethods,
     Path : {<<"/">>, <<"/", "a">>, <<"/", "a", "/">>, <<"/", "A">>, <<"/", "b">>,
             <<"/", "/", "a">>},
     RawQuery : {<<>>, <<"q">>},
     RequestID : {""}]

NextRoute ==
    \/ NewWithOptions(RouteOptions)
    \/ Handle(RouteMethods, RoutePaths)
    \/ ServeHTTP(RouteRequests)
    \/ handleHTTPRequest
    \/ EnterHandler
    \/ NextReturn
    \/ HandlerReturn
    \/ PanicRecoveryStep
    \/ DispatchFinish
    \/ ServeErrorFinish
    \/ Put

SpecRoute == Init /\ [][NextRoute]_vars

\* redirects for the methods with and without a body
RedirectOptions ==
    {o \in AllOptions : /\ ~o.UseRequestLogger
                        /\ ~o.UsePanicRecovery
                        /\ o.HandleMethodNotAllowed = DefaultOptions.HandleMethodNotAllowed}

RedirectMethods == {"GET", "HEAD", "POST", "DELETE"}

RedirectPaths == {<<"/", "a">>, <<"/", "a", "/">>}

RedirectRequests ==
    [Method : RedirectMethods,
     Path : {<<"/", "a">>, <<"/", "a", "/">>, <<"/", "A">>},
     RawQuery : {<<>>},
     RequestID : {""}]

NextRedirect ==
    \/ NewWithOptions(RedirectOptions)
    \/ Handle(RedirectMethods, RedirectPaths)
    \/ ServeHTTP(RedirectRequests)
    \/ handleHTTPRequest
    \/ EnterHandler
    \/ NextReturn
    \/ HandlerReturn
    \/ DispatchFinish
    \/ ServeErrorFinish
    \/ Put

SpecRedirect == Init /\ [][NextRedirect]_vars

\* the request logger with an ignore list, requests with and without an
\* inbound X-Request-ID
LoggerOptions ==
    {[DefaultOptions EXCEPT !.UsePanicRecovery = FALSE, !.RequestLoggerIgnore = l] :
        l \in {<<>>, <<<<"/", "h">>>>, <<<<"/", "h">>, <<"/", "m">>>>}}

LoggerPaths == {<<"/", "h">>, <<"/", "a">>}

LoggerRequests ==
    [Method : {"GET"}, Path : {<<"/">>, <<"/", "h">>, <<"/", "a">>, <<"/", "h", ",">>},
     RawQuery : {<<>>}, RequestID : {"", "abc"}]

LoggerOps == {[op |-> "Write", arg |-> 0]}

NextLogger ==
    \/ NewWithOptions(LoggerOptions)
    \/ Use
    \/ Handle({"GET"}, LoggerPaths)
    \/ ServeHTTP(LoggerRequests)
    \/ handleHTTPRequest
    \/ EnterHandler
    \/ NextReturn
    \/ HandlerOp(LoggerOps)
    \/ HandlerReturn
    \/ RequestLoggerStep
    \/ DispatchFinish
    \/ ServeErrorFinish
    \/ Put

SpecLogger == Init /\ [][NextLogger]_vars

\* lookups: routes with parameters and a catch-all, registered in any
\* order; handlers that only return
LookupOptions ==
    {o \in AllOptions : /\ ~o.UseRequestLogger
                        /\ ~o.UsePanicRecovery
                        /\ o.RedirectTrailingSlash = DefaultOptions.RedirectTrailingSlash
                        /\ o.RedirectFixedPath = DefaultOptions.RedirectFixedPath
                        /\ o.HandleMethodNotAllowed = DefaultOptions.HandleMethodNotAllowed}

\* "/u/:p", "/u/:q", "/u/:p/:q", "/u/:p/a", "/a", "/a/*f", "/a/b"
LookupPaths ==
    {<<"/", "u", "/", ":p">>, <<"/", "u", "/", ":q">>,
     <<"/", "u", "/", ":p", "/", ":q">>, <<"/", "u", "/", ":p", "/", "a">>,
     <<"/", "a">>, <<"/", "a", "/", "*f">>, <<"/", "a", "/", "b">>}

\* "/u/4", "/u/42", "/u/4/b", "/u/4/a", "/a", "/a/b", "/a/b/c", "/a/", "/u", "/b"
LookupRequests ==
    [Method : {"GET"},
     Path : {<<"/", "u", "/", "4">>, <<"/", "u", "/", "4", "2">>,
             <<"/", "u", "/", "4", "/", "b">>, <<"/", "u", "/", "4", "/", "a">>,
             <<"/", "a">>, <<"/", "a", "/", "b">>, <<"/", "a", "/", "b", "/", "c">>,
             <<"/", "a", "/">>, <<"/", "u">>, <<"/", "b">>},
     RawQuery : {<<>>},
     RequestID : {""}]

NextLookup ==
    \/ NewWithOptions(LookupOptions)
    \/ Handle({"GET"}, LookupPaths)
    \/ ServeHTTP(LookupRequests)
    \/ handleHTTPRequest
    \/ EnterHandler
    \/ NextReturn
    \/ HandlerReturn
    \/ DispatchFinish
    \/ ServeErrorFinish
    \/ Put

SpecLookup == Init /\ [][NextLookup]_vars

\* registrations that collide: parameters of two names, a catch-all, paths
\* with and without the leading "/", controllers of every path
ConflictOptions ==
    {[DefaultOptions EXCEPT !.UseRequestLogger = FALSE, !.UsePanicRecovery = FALSE]}

\* "/u/:p", "/u/:q", "u/:q", "/u/:p/a", "/u/*f", "/a"
ConflictPaths ==
    {<<"/", "u", "/", ":p">>, <<"/", "u", "/", ":q">>, <<"u", "/", ":q">>,
     <<"/", "u", "/", ":p", "/", "a">>, <<"/", "u", "/", "*f">>, <<"/", "a">>}

\* Version(): "", "/v1", "v1"
ControllerVersions == {<<>>, <<"/", "v", "1">>, <<"v", "1">>}

\* Prefix(): "", "/u", "u"
ControllerPrefixes == {<<>>, <<"/", "u">>, <<"u">>}

NextConflict ==
    \/ NewWithOptions(ConflictOptions)
    \/ HandleOn({0}, {<<"G", "E", "T">>, <<"P", "O", "S", "T">>}, ConflictPaths, MaxRoutes)
    \/ RegisterController(ControllerVersions, ControllerPrefixes)

SpecConflict == Init /\ [][NextConflict]_vars

----------------------------------------------------------------------------
(* The Paginator *)

PaginatorPageDefault == 1

PaginatorPerPageDefault == 20

Digits == <<"0", "1", "2", "3", "4", "5", "6", "7", "8", "9">>

IsDigit(ch) == \E d \in 1..10 : Digits[d] = ch

DigitValue(ch) == (CHOOSE d \in 1..10 : Digits[d] = ch) - 1

\* the number a string of digits writes in base 10
RECURSIVE Decimal(_)
Decimal(str) ==
    IF str = <<>> THEN 0 ELSE 10 * Decimal(Front(str)) + DigitValue(Last(str))

\* strconv.ParseInt(str, 10, 64) with its error dropped: an optional sign
\* and one or more digits, 0 for anything else
ParseInt(str) ==
    LET signed == str # <<>> /\ Head(str) \in {"+", "-"}
        digits == IF signed THEN Tail(str) ELSE str
    IN  IF digits = <<>> \/ \E j \in 1..Len(digits) : ~IsDigit(digits[j])
        THEN 0
        ELSE IF signed /\ Head(str) = "-" THEN 0 - Decimal(digits) ELSE Decimal(digits)

\* NewPaginator
NewPaginator(pageString, perPageString, orderBy, orderDir, filter) ==
    LET page == IF ParseInt(pageString) < 1 THEN PaginatorPageDefault
                ELSE ParseInt(pageString)
        perPage == IF ParseInt(perPageString) < 1 THEN PaginatorPerPageDefault
                   ELSE ParseInt(perPageString)
    IN  [Page |-> page, PerPage |-> perPage, Offset |-> (page - 1) * perPage,
         OrderBy |-> orderBy, OrderDir |-> orderDir, Filter |-> filter]

\* NewPaginatorFromParams: a parameter that is not given is "1", "20" or ""
NewPaginatorFromParams(params) ==
    NewPaginator(IF params.page = <<>> THEN <<"1">> ELSE params.page,
                 IF params.perPage = <<>> THEN <<"2", "0">> ELSE params.perPage,
                 params.orderBy, params.orderDir, params.filter)

\* "", "0", "1", "2", "3", "-1", "x", "2x", "+2", "10", "07"
PageStrings ==
    {<<>>, <<"0">>, <<"1">>, <<"2">>, <<"3">>, <<"-", "1">>, <<"x">>, <<"2", "x">>,
     <<"+", "2">>, <<"1", "0">>, <<"0", "7">>}

\* "", "0", "1", "2", "5", "20", "50", "-5", "abc", "+3"
PerPageStrings ==
    {<<>>, <<"0">>, <<"1">>, <<"2">>, <<"5">>, <<"2", "0">>, <<"5", "0">>, <<"-", "5">>,
     <<"a", "b", "c">>, <<"+", "3">>}

OrderStrings == {"", "id"}

\* a call of NewPaginator
CallNewPaginator ==
    /\ \E pageString \in PageStrings, perPageString \in PerPageStrings,
          orderBy \in OrderStrings :
        paginator' = [made |-> TRUE, from |-> "NewPaginator",
                      page |-> pageString, perPage |-> perPageString,
                      p |-> NewPaginator(pageString, perPageString, orderBy, "", "")]
    /\ UNCHANGED <<phase, opts, Handlers, groups, trees, pool, c, Request, writermem, w,
                   stack, panicking, hist, goroutines, heap, session>>

\* a call of NewPaginatorFromParams
CallNewPaginatorFromParams ==
    /\ \E pageString \in PageStrings, perPageString \in PerPageStrings,
          orderBy \in OrderStrings :
        paginator' = [made |-> TRUE, from |-> "NewPaginatorFromParams",
                      page |-> pageString, perPage |-> perPageString,
                      p |-> NewPaginatorFromParams(
                                [page |-> pageString, perPage |-> perPageString,
                                 orderBy |-> orderBy, orderDir |-> "", filter |-> ""])]
    /\ UNCHANGED <<phase, opts, Handlers, groups, trees, pool, c, Request, writermem, w,
                   stack, panicking, hist, goroutines, heap, session>>

\* Paginator.Order(defaultOrder): an empty order and direction are filled in
Order ==
    /\ paginator.made
    /\ \E defaultOrder \in OrderStrings \ {""} :
        paginator' = [paginator EXCEPT
                        !.p.OrderBy = IF @ = "" THEN defaultOrder ELSE @,
                        !.p.OrderDir = IF @ = "" THEN "DESC" ELSE @]
    /\ UNCHANGED <<phase, opts, Handlers, groups, trees, pool, c, Request, writermem, w,
                   stack, panicking, hist, goroutines, heap, session>>

NextPaginator == CallNewPaginator \/ CallNewPaginatorFromParams \/ Order

SpecPaginator == Init /\ [][NextPaginator]_vars

----------------------------------------------------------------------------
(* The Session *)

\* s.Session.Values[name]: nil for a name that is not in the map
Get(values, name) == IF name \in DOMAIN values THEN values[name] ELSE nil

\* Session.Delete: delete(s.Session.Values, name)
Delete(values, name) == [k \in DOMAIN values \ {name} |-> values[k]]

\* Session.Set: s.Session.Values[name] = value
Set(values, name, value) ==
    [k \in DOMAIN values \cup {name} |-> IF k = name THEN value ELSE values[k]]

\* a mutant of GetOnce: the value is returned and stays in the map
GetOnceKeeps(values, name) ==
    IF name \in DOMAIN values
    THEN [Values |-> values, ret |-> values[name]]
    ELSE [Values |-> values, ret |-> nil]

\* Session.GetOnce: the map afterwards and the value returned
GetOnce(values, name) ==
    IF name \in DOMAIN values
    THEN [Values |-> Delete(values, name), ret |-> values[name]]
    ELSE [Values |-> values, ret |-> nil]

\* Session.Clear: every key the range finds is deleted
RECURSIVE Clear(_)
Clear(values) ==
    IF DOMAIN values = {} THEN values
    ELSE Clear(Delete(values, CHOOSE k \in DOMAIN values : TRUE))

SessionNames == {"k1", "k2"}

SessionValues == {"v1", "v2", nil}

\* what a call leaves in the Session
AfterCall(op, name, value, values, ret) ==
    [Values |-> values, call |-> op, name |-> name, value |-> value, ret |-> ret,
     calls |-> session.calls + 1]

SessionCall ==
    /\ session.calls < MaxCalls
    /\ \E name \in SessionNames, value \in SessionValues :
        \/ session' = AfterCall("Get", name, nil, session.Values, Get(session.Values, name))
        \/ session' = AfterCall("GetOnce", name, nil, GetOnce(session.Values, name).Values,
                                GetOnce(session.Values, name).ret)
        \/ session' = AfterCall("Set", name, value, Set(session.Values, name, value), nil)
        \/ session' = AfterCall("Delete", name, nil, Delete(session.Values, name), nil)
        \/ session' = AfterCall("Clear", "", nil, Clear(session.Values), nil)
    /\ UNCHANGED <<phase, opts, Handlers, groups, trees, pool, c, Request, writermem, w,
                   stack, panicking, hist, goroutines, heap, paginator>>

NextSession == SessionCall

SpecSession == Init /\ [][NextSession]_vars

----------------------------------------------------------------------------
(* Concurrent requests: net/http calls ServeHTTP on one goroutine per
   connection.  A Context is an object on the heap, c is its address, the
   pool holds addresses. *)

\* the object allocateContext makes: the Context with its writer and request
NewObject == [c |-> allocateContext, Request |-> 0, writermem |-> resetWriter]

\* StartHTTP: registration is over, the server accepts connections
StartHTTP ==
    /\ phase = "setup"
    /\ phase' = "listening"
    /\ UNCHANGED <<opts, Handlers, groups, trees, pool, c, Request, writermem, w,
                   stack, panicking, hist, goroutines, heap, paginator, session>>

\* a mutant of PoolTake: Get hands out an element and leaves it in the pool
PoolTakeKeeps(pl, j) == pl

\* sync.Pool.Get: the element handed out is removed from the pool
PoolTake(pl, j) == SubSeq(pl, 1, j - 1) \o SubSeq(pl, j + 1, Len(pl))

\* c := a.pool.Get().(*Context): an element of the pool, or a new Context
\* from pool.New
GoGet(RequestSet) ==
    /\ phase = "listening"
    /\ \E g \in 1..MaxGoroutines, r \in RequestSet :
        /\ goroutines[g].pc = "parked"
        /\ \/ \E j \in 1..Len(pool) :
                /\ goroutines' = [goroutines EXCEPT ![g] =
                                     [pc |-> "got", c |-> pool[j], r |-> r, from |-> "pool"]]
                /\ pool' = PoolTake(pool, j)
                /\ UNCHANGED heap
           \/ /\ Len(heap) < MaxContexts
              /\ heap' = Append(heap, NewObject)
              /\ goroutines' = [goroutines EXCEPT ![g] =
                                   [pc |-> "got", c |-> Len(heap) + 1, r |-> r,
                                    from |-> "New"]]
              /\ UNCHANGED pool
    /\ UNCHANGED <<phase, opts, Handlers, groups, trees, c, Request, writermem, w,
                   stack, panicking, hist,
                   paginator, session>>

\* c.writermem.reset(w); c.Request = r; c.reset()
GoReset ==
    /\ \E g \in 1..MaxGoroutines :
        /\ goroutines[g].pc = "got"
        /\ heap' = [heap EXCEPT ![goroutines[g].c] =
                       [c |-> reset(@.c), Request |-> goroutines[g].r,
                        writermem |-> resetWriter]]
        /\ goroutines' = [goroutines EXCEPT ![g].pc = "reset"]
    /\ UNCHANGED <<phase, opts, Handlers, groups, trees, pool, c, Request, writermem,
                   w, stack, panicking, hist,
                   paginator, session>>

\* handleHTTPRequest up to c.Next or c.ServeError: the chain and the params
\* of the match, or the global chain and the error of the miss
GoHandle ==
    /\ \E g \in 1..MaxGoroutines :
        LET o == heap[goroutines[g].c]
            v == getValue(trees[o.Request.Method], o.Request.Path)
        IN  /\ goroutines[g].pc = "reset"
            /\ heap' = [heap EXCEPT ![goroutines[g].c].c =
                           IF v.handlers # <<>>
                           THEN [@ EXCEPT !.handlers = v.handlers, !.Params = v.ps,
                                          !.index = Inc8(@)]
                           ELSE [@ EXCEPT !.handlers = Handlers,
                                          !.Errors = Append(@, [req |-> o.Request,
                                                                err |-> default404Body]),
                                          !.index = Inc8(@)],
                                   ![goroutines[g].c].writermem =
                           IF v.handlers # <<>> THEN @
                           ELSE WriteHeader(@, StatusNotFound)]
            /\ goroutines' = [goroutines EXCEPT ![g].pc = "chain"]
    /\ UNCHANGED <<phase, opts, Handlers, groups, trees, pool, c, Request, writermem,
                   w, stack, panicking, hist,
                   paginator, session>>

\* the loop of c.Next: the handler at index runs and returns, or the chain
\* is over and the headers are written
GoNext ==
    /\ \E g \in 1..MaxGoroutines :
        LET o == heap[goroutines[g].c]
        IN  /\ goroutines[g].pc = "chain"
            /\ IF o.c.index < Len(o.c.handlers)
               THEN /\ heap' = [heap EXCEPT ![goroutines[g].c].c.index = Inc8(@)]
                    /\ UNCHANGED goroutines
               ELSE /\ heap' = [heap EXCEPT ![goroutines[g].c].writermem =
                                                WriteHeaderNow(@)]
                    /\ goroutines' = [goroutines EXCEPT ![g].pc = "done"]
    /\ UNCHANGED <<phase, opts, Handlers, groups, trees, pool, c, Request, writermem,
                   w, stack, panicking, hist,
                   paginator, session>>

\* a handler panics and nothing recovers it: the goroutine leaves ServeHTTP
\* before a.pool.Put
GoPanic ==
    /\ \E g \in 1..MaxGoroutines :
        /\ goroutines[g].pc = "chain"
        /\ heap[goroutines[g].c].c.index < Len(heap[goroutines[g].c].c.handlers)
        /\ goroutines' = [goroutines EXCEPT ![g] = Parked]
    /\ UNCHANGED <<phase, opts, Handlers, groups, trees, pool, c, Request, writermem,
                   w, stack, panicking, hist, heap, paginator, session>>

\* a.pool.Put(c)
GoPut ==
    /\ \E g \in 1..MaxGoroutines :
        /\ goroutines[g].pc = "done"
        /\ pool' = Append(pool, goroutines[g].c)
        /\ goroutines' = [goroutines EXCEPT ![g] = Parked]
    /\ UNCHANGED <<phase, opts, Handlers, groups, trees, c, Request, writermem, w,
                   stack, panicking, hist, heap, paginator, session>>

PoolOptions ==
    {[DefaultOptions EXCEPT !.UseRequestLogger = FALSE, !.UsePanicRecovery = FALSE]}

PoolRequests ==
    [Method : {"GET"}, Path : {<<"/", "a">>, <<"/", "b">>, <<"/">>}, RawQuery : {<<>>},
     RequestID : {""}]

NextPool ==
    \/ NewWithOptions(PoolOptions)
    \/ Use
    \/ Handle({"GET"}, ChainPaths)
    \/ StartHTTP
    \/ GoGet(PoolRequests)
    \/ GoReset
    \/ GoHandle
    \/ GoNext
    \/ GoPanic
    \/ GoPut

SpecPool == Init /\ [][NextPool]_vars

\* handlers that serve errors themselves, on a match and on a routing miss
ErrorOptions ==
    {o \in AllOptions : /\ ~o.UseRequestLogger
                        /\ o.RedirectTrailingSlash = DefaultOptions.RedirectTrailingSlash
                        /\ o.RedirectFixedPath = DefaultOptions.RedirectFixedPath
                        /\ o.HandleMethodNotAllowed = DefaultOptions.HandleMethodNotAllowed}

ErrorOps ==
    {[op |-> "Next", arg |-> 0], [op |-> "Abort", arg |-> 0], [op |-> "Write", arg |-> 0],
     [op |-> "Status", arg |-> StatusUnauthorized],
     [op |-> "ServeError", arg |-> StatusInternalServerError]}

NextError ==
    \/ NewWithOptions(ErrorOptions)
    \/ Use
    \/ Handle({"GET"}, ChainPaths)
    \/ ServeHTTP(ChainRequests)
    \/ handleHTTPRequest
    \/ EnterHandler
    \/ NextReturn
    \/ HandlerOp(ErrorOps)
    \/ HandlerReturn
    \/ PanicRecoveryStep
    \/ DispatchFinish
    \/ ServeErrorFinish
    \/ Put

SpecError == Init /\ [][NextError]_vars

\* many middleware, added in bulk as TestRouterGroupTooManyHandlers does, one
\* route, handlers that abort or return
CeilingOptions ==
    {[DefaultOptions EXCEPT !.UseRequestLogger = FALSE, !.UsePanicRecovery = FALSE]}

CeilingSizes == {26, 40}

CeilingOps == {[op |-> "Abort", arg |-> 0]}

CeilingRequests ==
    [Method : {"GET"}, Path : {<<"/">>}, RawQuery : {<<>>}, RequestID : {""}]

NextCeiling ==
    \/ NewWithOptions(CeilingOptions)
    \/ UseOn({0}, CeilingSizes, MaxHandlers)
    \/ HandleOn({0}, {<<"G", "E", "T">>}, {<<"/">>}, MaxHandle)
    \/ ServeHTTP(CeilingRequests)
    \/ handleHTTPRequest
    \/ EnterHandler
    \/ NextReturn
    \/ HandlerOp(CeilingOps)
    \/ HandlerReturn
    \/ DispatchFinish
    \/ ServeErrorFinish
    \/ Put

SpecCeiling == Init /\ [][NextCeiling]_vars

\* registration on the application's router: Use, Handle with the method
\* strings of TestRouterGroupBadMethod, Static and StaticFile with the
\* prefixes of TestRouterGroupInvalidStatic, the static mount of
\* NewWithOptions
RegisterOptions ==
    {[DefaultOptions EXCEPT !.UseRequestLogger = FALSE, !.UsePanicRecovery = FALSE,
                            !.ServeStatic = s, !.StaticPath = p] :
        s \in BOOLEAN, p \in {<<"/", "s">>, <<"/", ":p">>}}

\* "GET", "POST" and "get", " GET", "GET ", "", "PO ST", "1GET", "PATCh"
RegisterMethods ==
    {<<"G", "E", "T">>, <<"P", "O", "S", "T">>,
     <<"g", "e", "t">>, <<" ", "G", "E", "T">>, <<"G", "E", "T", " ">>, <<>>,
     <<"P", "O", " ", "S", "T">>, <<"1", "G", "E", "T">>, <<"P", "A", "T", "C", "h">>}

RegisterPaths == {<<"/">>, <<"/", "t", "e", "s", "t">>}

\* "/s", "/path/:param", "/path/*param"
StaticPrefixes ==
    {<<"/", "s">>, <<"/", "p", "a", "t", "h", "/", ":p">>,
     <<"/", "p", "a", "t", "h", "/", "*f">>}

NextRegister ==
    \/ NewWithOptions(RegisterOptions)
    \/ UseOn({0}, 1..2, MaxUse)
    \/ HandleOn({0}, RegisterMethods, RegisterPaths, MaxHandle)
    \/ StaticOn({0}, StaticPrefixes)

SpecRegister == Init /\ [][NextRegister]_vars

\* group composition: the groups of TestRouterBasic and of
\* performRequestInGroup, Use on every router
ComposeOptions ==
    {[DefaultOptions EXCEPT !.UseRequestLogger = FALSE, !.UsePanicRecovery = FALSE]}

\* "/hi", "resho", "v1", "/login/"
ComposePrefixes ==
    {<<"/", "h", "i">>, <<"r", "e", "s", "h", "o">>, <<"v", "1">>,
     <<"/", "l", "o", "g", "i", "n", "/">>}

NextCompose ==
    \/ NewWithOptions(ComposeOptions)
    \/ Group(ComposePrefixes, 0..2)
    \/ UseOn(0..MaxGroups, 1..2, MaxMiddleware)

SpecCompose == Init /\ [][NextCompose]_vars

\* routes on groups, as in performRequestInGroup: the groups "v1" and
\* "/login/", one route "/test" for one of the seven verbs, requests for
\* "/v1/test" and "/v1/login/test"
GroupPrefixes == {<<"v", "1">>, <<"/", "l", "o", "g", "i", "n", "/">>}

GroupMethods ==
    {<<"G", "E", "T">>, <<"P", "O", "S", "T">>, <<"P", "U", "T">>,
     <<"P", "A", "T", "C", "H">>, <<"D", "E", "L", "E", "T", "E">>,
     <<"H", "E", "A", "D">>, <<"O", "P", "T", "I", "O", "N", "S">>}

GroupPaths == {<<"/", "t", "e", "s", "t">>}

GroupRequests ==
    [Method : {MethodName(m) : m \in GroupMethods},
     Path : {<<"/", "v", "1", "/", "t", "e", "s", "t">>,
             <<"/", "v", "1", "/", "l", "o", "g", "i", "n", "/", "t", "e", "s", "t">>},
     RawQuery : {<<>>}, RequestID : {""}]

GroupOps ==
    {[op |-> "Next", arg |-> 0], [op |-> "Status", arg |-> StatusBadRequest],
     [op |-> "Write", arg |-> 0]}

NextGroup ==
    \/ NewWithOptions(ComposeOptions)
    \/ Group(GroupPrefixes, 1..2)
    \/ HandleOn(0..MaxGroups, GroupMethods, GroupPaths, MaxHandle)
    \/ ServeHTTP(GroupRequests)
    \/ handleHTTPRequest
    \/ EnterHandler
    \/ NextReturn
    \/ HandlerOp(GroupOps)
    \/ HandlerReturn
    \/ DispatchFinish
    \/ ServeErrorFinish
    \/ Put

SpecGroup == Init /\ [][NextGroup]_vars

----------------------------------------------------------------------------
(* Observations shared by the properties *)

\* the chain registered for the request in flight (empty on a routing miss)
RouteChain == getValue(trees[Request.Method], Request.Path).handlers

\* the positions of the handlers whose frames are on the stack
RECURSIVE ActiveHandlers(_)
ActiveHandlers(stk) ==
    IF stk = <<>> THEN <<>>
    ELSE IF Head(stk).k = "handler"
         THEN <<Head(stk).i>> \o ActiveHandlers(Tail(stk))
         ELSE ActiveHandlers(Tail(stk))

Range(s) == {s[j] : j \in 1..Len(s)}

\* 0, 1, ..., n-1
Positions(n) == [j \in 1..n |-> j - 1]

----------------------------------------------------------------------------
(* C1: Abort halts downstream, not upstream.  Once Abort has been called
   while a chain runs, no step enters a handler (so a later Next invokes
   nothing); the step of a handler that calls Abort leaves every entered
   handler's frame in place; and when the dispatcher has returned without
   any panic, every handler that was entered has run to its end. *)
C1_AbortHaltsDownstream ==
    [][/\ (hist.abortCalled /\ phase = "chain") => hist'.entered = hist.entered
       /\ (/\ phase = "chain" /\ ~hist.abortCalled /\ hist'.abortCalled
           /\ panicking = "none" /\ Top.k = "handler")
            => ActiveHandlers(stack') = ActiveHandlers(stack)
       /\ (phase' = "handled" /\ hist'.panic = "none")
            => Range(hist'.returned) = Range(hist'.entered)]_vars

\* the chain [A, B, C] of the example: A called Next and ran code after it,
\* B aborted, C was never entered
C1_Witness ==
    /\ phase = "handled"
    /\ hist.outcome = "match"
    /\ Len(c.handlers) = 3
    /\ hist.abortCalled
    /\ hist.panic = "none"
    /\ hist.entered = <<0, 1>>
    /\ hist.returned = <<1, 0>>
    /\ hist.statusAfterNext

----------------------------------------------------------------------------
(* C2: chain order with wrap-around.  While a matched chain runs, the
   handlers entered so far are the first ones of the route's registered chain
   (the middleware in registration order, then the route's handler), each
   once and in order; a handler whose Next call has returned finds every
   later handler returned; and when the dispatcher returns with no Abort and
   no panic, every handler of the chain has been entered. *)
C2_ChainOrder ==
    (phase \in {"chain", "handled"} /\ hist.outcome = "match") =>
        /\ c.handlers = RouteChain
        /\ Len(hist.entered) <= Len(RouteChain)
        /\ hist.entered = Positions(Len(hist.entered))
        /\ (/\ phase = "chain" /\ panicking = "none" /\ Top.k = "handler" /\ Top.nx
            /\ ~hist.abortCalled /\ hist.panic = "none")
             => \A i \in (Top.i + 1)..(Len(RouteChain) - 1) : i \in Range(hist.returned)
        /\ (phase = "handled" /\ ~hist.abortCalled /\ hist.panic = "none")
             => hist.entered = Positions(Len(RouteChain))

\* the general case of the router tests: PanicRecovery, A (calls Next), B and
\* the route's handler C; B and C return before A resumes
C2_Witness ==
    /\ phase = "handled"
    /\ hist.outcome = "match"
    /\ ~hist.abortCalled
    /\ hist.panic = "none"
    /\ hist.entered = <<0, 1, 2, 3>>
    /\ hist.returned = <<2, 3, 1, 0>>

----------------------------------------------------------------------------
(* C3: pool isolation.  While the chain of a request runs, whatever Context
   the pool handed out, the handlers see the chain, the params and the errors
   of this request only: the chain is the matched route's (the global
   middleware on a routing miss), the params are those of the match (none on
   a miss), every recorded error was recorded for this request, the first
   handler entered is the one at position 0 and a handler just entered reads
   its own position in the cursor. *)
C3_PoolIsolation ==
    phase = "chain" =>
        /\ c.handlers = (IF RouteChain # <<>> THEN RouteChain ELSE Handlers)
        /\ c.Params = getValue(trees[Request.Method], Request.Path).ps
        /\ Len(c.Errors) = hist.errs
        /\ \A j \in 1..Len(c.Errors) :
              c.Errors[j].req \in {Request, [Request EXCEPT !.RequestID = hist.inbound]}
        /\ hist.entered # <<>> => hist.entered[1] = 0
        /\ (panicking = "none" /\ Top.k = "handler" /\ Top.n = 0) => c.index = Top.i

\* a routing miss served with a Context that came back from the pool holding
\* a path parameter and an error of the request before
C3_Witness ==
    /\ phase = "chain"
    /\ hist.stale
    /\ hist.outcome = "404"
    /\ Top.k = "handler"
    /\ c.Params = <<>>
    /\ Len(c.Errors) = 1

----------------------------------------------------------------------------
(* Observations of the routing properties *)

\* the request's path is registered for the method m
Registered(m, path) == Hits(trees[m], path) # {}

RegisteredElsewhere(m, path) == \E o \in AllMethods \ {m} : Registered(o, path)

\* the path that differs from path by one trailing slash
OtherSlash(path) ==
    IF Len(path) > 1 /\ path[Len(path)] = "/"
    THEN SubSeq(path, 1, Len(path) - 1) ELSE path \o <<"/">>

Redirected == w.status \in {StatusMovedPermanently, StatusTemporaryRedirect}

\* handleHTTPRequest has returned
Answered == phase = "handled"

(* C4: 405 versus 404.  A request that is answered without a match and
   without a redirect gets 405 when its path is registered for another
   method and HandleMethodNotAllowed is enabled, 404 when the path is
   registered for another method and the option is disabled, and 404 when the
   path is registered for no method, whatever the option is. *)
C4_405Versus404 ==
    (Answered /\ ~Registered(Request.Method, hist.path) /\ ~Redirected) =>
        IF RegisteredElsewhere(Request.Method, hist.path)
        THEN w.status = (IF opts.HandleMethodNotAllowed
                         THEN StatusMethodNotAllowed ELSE StatusNotFound)
        ELSE w.status = StatusNotFound

\* a 405: the path is registered for another method only, detection enabled
C4_Witness ==
    /\ Answered
    /\ ~Registered(Request.Method, hist.path)
    /\ RegisteredElsewhere(Request.Method, hist.path)
    /\ opts.HandleMethodNotAllowed
    /\ w.status = StatusMethodNotAllowed

(* C5 as stated: when P is not registered for the method and the path that
   differs from P by the trailing slash is, the answer with
   RedirectTrailingSlash enabled is a redirect to exactly that path and the
   query, and with RedirectTrailingSlash and RedirectFixedPath disabled it is
   a 404 without a redirect. *)
C5_AsStated ==
    (/\ Answered
     /\ ~Registered(Request.Method, hist.path)
     /\ Registered(Request.Method, OtherSlash(hist.path))) =>
        /\ opts.RedirectTrailingSlash =>
            /\ Redirected
            /\ w.location = URLString(OtherSlash(hist.path), Request.RawQuery)
        /\ (~opts.RedirectTrailingSlash /\ ~opts.RedirectFixedPath) =>
            /\ w.status = StatusNotFound
            /\ w.location = <<>>

(* C5, amended: the redirect is issued for every method but CONNECT and every
   path but "/"; with both corrections disabled no redirect is issued and the
   answer is the 405/404 decision: 405 when HandleMethodNotAllowed is enabled
   and P is registered for another method, 404 otherwise. *)
C5_TrailingSlash ==
    (/\ Answered
     /\ ~Registered(Request.Method, hist.path)
     /\ Registered(Request.Method, OtherSlash(hist.path))) =>
        /\ (/\ opts.RedirectTrailingSlash
            /\ Request.Method # "CONNECT"
            /\ hist.path # <<"/">>) =>
            /\ Redirected
            /\ w.location = URLString(OtherSlash(hist.path), Request.RawQuery)
        /\ (~opts.RedirectTrailingSlash /\ ~opts.RedirectFixedPath) =>
            /\ w.location = <<>>
            /\ w.status =
                (IF /\ opts.HandleMethodNotAllowed
                    /\ RegisteredElsewhere(Request.Method, hist.path)
                 THEN StatusMethodNotAllowed ELSE StatusNotFound)

\* "/a/" is asked with a query, only "/a" is registered: the redirect strips
\* the slash and keeps the query
C5_Witness ==
    /\ Answered
    /\ hist.path = <<"/", "a", "/">>
    /\ Request.RawQuery = <<"q">>
    /\ ~Registered(Request.Method, hist.path)
    /\ Registered(Request.Method, <<"/", "a">>)
    /\ opts.RedirectTrailingSlash
    /\ w.location = <<"/", "a", "?", "q">>

(* C6: dispatch precedence.  Every answered request has exactly one of the
   five outcomes, the first that applies of: exact match, trailing-slash
   redirect, fixed-path redirect, 405, 404.  An exact match is never
   redirected nor answered by the 404/405 path, and a method without a tree
   goes to the 405/404 decision without a redirect. *)
C6_DispatchPrecedence ==
    Answered =>
        LET m == Request.Method
            root == trees[m]
            exact == Registered(m, hist.path)
            mayRedirect == root # <<>> /\ m # "CONNECT" /\ hist.path # <<"/">>
            slash == /\ mayRedirect
                     /\ opts.RedirectTrailingSlash
                     /\ Registered(m, OtherSlash(hist.path))
            fixed == /\ mayRedirect
                     /\ opts.RedirectFixedPath
                     /\ findCaseInsensitivePath(root, CleanPath(hist.path),
                                                opts.RedirectTrailingSlash) # {}
            other == opts.HandleMethodNotAllowed /\ RegisteredElsewhere(m, hist.path)
        IN  /\ hist.outcome =
                (CASE exact -> "match"
                   [] ~exact /\ slash -> "tsr"
                   [] ~exact /\ ~slash /\ fixed -> "fixed"
                   [] ~exact /\ ~slash /\ ~fixed /\ other -> "405"
                   [] OTHER -> "404")
            /\ exact => (w.location = <<>> /\ w.by = "dispatcher")
            /\ root = <<>> => (w.location = <<>> /\ hist.outcome \in {"405", "404"})
            /\ hist.outcome \in {"tsr", "fixed"} <=> Redirected
            /\ hist.outcome = "405" <=> w.status = StatusMethodNotAllowed
            /\ hist.outcome = "404" <=> w.status = StatusNotFound

\* a fixed-path redirect: neither an exact match nor a trailing-slash
\* redirect applied
C6_Witness ==
    /\ Answered
    /\ hist.outcome = "fixed"
    /\ opts.RedirectTrailingSlash
    /\ w.location # <<>>

----------------------------------------------------------------------------
(* Observations of the recovery and header properties *)

\* the position PanicRecovery has in the chains of this application, from 0
RecoveryIndex == IF opts.UseRequestLogger THEN 1 ELSE 0

\* the request is over: handleHTTPRequest has returned, or ServeHTTP has
Served == phase = "handled" \/ (phase = "idle" /\ hist.result = "returned")

(* C7: panic recovery.  With PanicRecovery installed, a panic of the last
   handler of the chain, whatever its value (an error or a string), unless it
   is a broken pipe or a connection reset, does not leave ServeHTTP, no
   handler is entered after it, and the response, when the handlers had sent
   nothing, is the 500 of ServeError. *)
C7_PanicRecovered ==
    (/\ opts.UsePanicRecovery
     /\ hist.panic # "none"
     /\ ~brokenPipe(hist.panic)
     /\ hist.panicAt = Len(c.handlers) - 1) =>
        /\ hist.result # "panicked"
        /\ Last(hist.entered) = hist.panicAt
        /\ (phase = "handled" /\ ~hist.wrote) =>
            (w.status = StatusInternalServerError /\ w.by = "serveError")

(* C8: peer-disconnect panic.  On a matched route, once a panic with a broken
   pipe or a connection reset has been recovered and the request is over, the
   error is in the context's errors, the chain is aborted, and neither the
   recovery middleware nor the dispatcher has written to the response. *)
C8_PeerDisconnectSilent ==
    (/\ opts.UsePanicRecovery
     /\ hist.outcome = "match"
     /\ brokenPipe(hist.panic)
     /\ Served) =>
        /\ \E j \in 1..Len(c.Errors) : c.Errors[j].err = hist.panic
        /\ hist.abortCalled
        /\ c.index >= abortIndex
        /\ w.by \notin {"dispatcher", "serveError"}

(* C9 as stated: with panic recovery enabled PanicRecovery is the first
   handler (position 0) of every chain the dispatcher runs. *)
C9_AsStated ==
    (phase \in {"chain", "handled"} /\ opts.UsePanicRecovery) =>
        /\ c.handlers # <<>>
        /\ c.handlers[1] = PanicRecovery

(* C9, amended: with panic recovery enabled PanicRecovery is at position 0
   of every chain the dispatcher runs when the request logger is disabled and
   at position 1, directly after RequestLogger, when it is enabled.  Every
   middleware added with Use and every route handler comes after it and runs
   inside it: while such a handler is running PanicRecovery has not returned,
   and once PanicRecovery has returned only RequestLogger can still run. *)
C9_RecoveryPosition ==
    (phase \in {"chain", "handled"} /\ opts.UsePanicRecovery) =>
        LET r == RecoveryIndex
            active == ActiveHandlers(stack)
        IN  /\ Len(c.handlers) > r
            /\ c.handlers[r + 1] = PanicRecovery
            /\ opts.UseRequestLogger => c.handlers[1] = RequestLogger
            /\ \A j \in (r + 2)..Len(c.handlers) : IsUser(c.handlers[j])
            /\ \A j \in 1..Len(active) :
                active[j] > r => (j > 1 /\ r \in {active[k] : k \in 1..(j - 1)})
            /\ r \in Range(hist.returned) =>
                /\ \A j \in 1..Len(active) : active[j] < r
                /\ Last(hist.returned) <= r
                /\ phase = "handled" => Last(hist.returned) = 0

\* the logger is first, PanicRecovery second; a middleware panicked with an
\* error value, PanicRecovery answered 500 and returned before the logger did
C9_Witness ==
    /\ phase = "handled"
    /\ opts.UseRequestLogger /\ opts.UsePanicRecovery
    /\ c.handlers[1] = RequestLogger
    /\ c.handlers[2] = PanicRecovery
    /\ Len(c.handlers) >= 3
    /\ hist.panic = "error"
    /\ w.status = StatusInternalServerError
    /\ Len(hist.returned) >= 2
    /\ hist.returned[Len(hist.returned) - 1] = 1
    /\ Last(hist.returned) = 0

(* C10: the status is locked at the first header write.  On a matched route
   whose handlers write neither headers nor body and where no error is
   served, nothing is sent while the chain runs, and the status the
   dispatcher sends after the chain has unwound is the last one a handler
   set, also when it was set after the handler's own Next call returned, or
   200 when none was set. *)
C10_StatusLockedAtFirstWrite ==
    (/\ hist.outcome = "match"
     /\ ~hist.wrote
     /\ w.by # "serveError"
     /\ ~writermem.written \/ w.by = "dispatcher") =>
        /\ phase = "chain" => (w.status = 0 /\ ~writermem.written)
        /\ phase = "handled" =>
            /\ w.by = "dispatcher"
            /\ w.status = (IF hist.lastStatus = 0 THEN StatusOK ELSE hist.lastStatus)

\* a middleware sets 410 after its Next has returned and aborts; the client
\* receives 410
C10_Witness ==
    /\ phase = "handled"
    /\ hist.outcome = "match"
    /\ ~hist.wrote
    /\ hist.statusAfterNext
    /\ hist.abortCalled
    /\ hist.panic = "none"
    /\ hist.lastStatus = StatusGone
    /\ w.status = StatusGone
    /\ w.by = "dispatcher"

----------------------------------------------------------------------------
(* Observations of the error-serving properties *)

\* the dispatcher found no route and served a 404 or a 405
Missed == hist.outcome \in {"404", "405"}

\* this step is a call of ServeError: a new serveError frame is the caller of
\* the running c.Next
ServeErrorCalled ==
    /\ hist'.errs = hist.errs + 1
    /\ Len(stack') >= 2
    /\ stack'[Len(stack')].k = "next"
    /\ stack'[Len(stack') - 1].k = "serveError"

\* this step is the return of ServeError
ServeErrorReturns == phase = "chain" /\ panicking = "none" /\ Top.k = "serveError"

(* C11: a routing miss runs the global middleware.  On a 404 or a 405 the
   chain bound to the context is the router's global middleware list, run
   from its first handler; when one of its middleware calls Abort and then
   ServeError(500, err) before anything was sent, no middleware positioned
   after it is entered and the final response status is 500. *)
C11_MissRunsGlobalChain ==
    (phase \in {"chain", "handled"} /\ Missed) =>
        /\ c.handlers = Handlers
        /\ hist.entered # <<>> => hist.entered[1] = 0
        /\ (phase = "handled" /\ Handlers # <<>>) => hist.entered # <<>>
        /\ hist.failAt >= 0 =>
            /\ \A j \in 1..Len(hist.entered) : hist.entered[j] <= hist.failAt
            /\ phase = "handled" =>
                (w.status = StatusInternalServerError /\ w.by = "serveError")

\* the run of TestRouterMiddlewareFailHandlersChain: behind PanicRecovery,
\* the first of two middleware aborts and serves 500 on a path without a
\* route; the second is not entered
C11_Witness ==
    /\ phase = "handled"
    /\ hist.outcome = "404"
    /\ Handlers = <<PanicRecovery, Middleware(1), Middleware(2)>>
    /\ hist.failAt = 1
    /\ hist.entered = <<0, 1>>
    /\ w.status = StatusInternalServerError

(* C12: ServeError(statusCode, err).  The call appends err to the context's
   errors and sets the status to statusCode unless the headers are already
   sent; its return leaves the cursor at the abort sentinel, sends the status
   line and a body if and only if the headers have not been sent, and sends
   nothing otherwise; no handler is entered while the cursor is at or beyond
   the sentinel. *)
C12_ServeError ==
    [][/\ ServeErrorCalled =>
            /\ Len(c'.Errors) = Len(c.Errors) + 1
            /\ Last(c'.Errors).req = Request
            /\ writermem'.written = writermem.written
            /\ writermem'.status =
                (IF writermem.written THEN writermem.status
                 ELSE stack'[Len(stack') - 1].code)
            /\ w' = w
       /\ ServeErrorReturns =>
            /\ c'.index = abortIndex
            /\ c'.Errors = c.Errors
            /\ writermem'.written
            /\ writermem.written => w' = w
            /\ ~writermem.written =>
                /\ w'.status = writermem.status
                /\ w'.by = "serveError"
                /\ w'.body
       /\ (phase = "chain" /\ c.index >= abortIndex) => hist'.entered = hist.entered]_vars

\* a handler that has written a body calls ServeError(500): the error is
\* recorded, the status and the body sent stay as they were
C12_Witness ==
    /\ phase = "handled"
    /\ hist.outcome = "match"
    /\ hist.wrote
    /\ hist.errs = 1
    /\ Len(c.Errors) = 1
    /\ c.Errors[1].err = "foo"
    /\ c.index >= abortIndex
    /\ w.status = StatusOK
    /\ w.by = "handler"

----------------------------------------------------------------------------
(* Observations of the registration properties *)

\* the segments of a path: the maximal runs of characters other than "/"
RECURSIVE Segments(_)
Segments(path) ==
    IF path = <<>> THEN <<>>
    ELSE IF Head(path) = "/" THEN Segments(Tail(path))
    ELSE LET n == SegLen(path)
         IN  <<SubSeq(path, 1, n)>> \o Segments(SubSeq(path, n + 1, Len(path)))

\* every registered route
AllRoutes == UNION {SeqRange(trees[m]) : m \in DOMAIN trees}

(* C13: handler-chain ceiling.  A route whose combined chain exceeds the
   ceiling of 63 handlers is not registered, the registration panics; no
   chain longer than the ceiling is bound to a context, so the Abort
   sentinel is beyond the length of every chain that runs. *)
C13_ChainCeiling ==
    /\ \A rt \in AllRoutes : Len(rt.handlers) <= abortIndex
    /\ phase \in {"chain", "handled"} => Len(c.handlers) <= abortIndex

(* C14: method validation.  Handle panics for every method string that is
   empty or holds a character that is not an uppercase letter A-Z (a
   lowercase letter, a digit, a space), and registers nothing then; a
   string of uppercase letters is never rejected as a method. *)
C14_MethodValidation ==
    [][(hist'.call.op = "Handle" /\ hist' # hist) =>
         LET m == hist'.call.method
         IN  IF m = <<>> \/ \E j \in 1..Len(m) : m[j] \notin UpperCase
             THEN /\ phase' = "failed"
                  /\ hist'.result = "http method is not valid"
                  /\ trees' = trees
             ELSE hist'.result # "http method is not valid"]_vars

\* Handle("PO ST", "/") has panicked after Use and a static mount
C14_Witness ==
    /\ phase = "failed"
    /\ hist.call = Call("Handle", 0, <<"P", "O", " ", "S", "T">>, <<"/">>)
    /\ hist.result = "http method is not valid"
    /\ Len(Handlers) = 2
    /\ trees["POST"] = <<>>
    /\ trees["GET"] # <<>>

(* C15: Static and StaticFile panic whenever the prefix holds a parameter
   segment or a catch-all segment, so the only wildcard of a registered
   static route is the catch-all that Static itself appends to the prefix. *)
C15_StaticWildcard ==
    /\ (/\ hist.call.op \in {"Static", "StaticFile"}
        /\ \E j \in 1..Len(hist.call.path) : hist.call.path[j] \in {":p", ":q", "*f"})
       => phase = "failed" /\ hist.result = "static with wildcard"
    /\ \A rt \in AllRoutes :
         Last(rt.handlers) = StaticHandler =>
           /\ \A j \in 1..(Len(rt.path) - 1) : rt.path[j] \notin {":p", ":q", "*f"}
           /\ Last(rt.path) \notin {":p", ":q"}

\* StaticFile("/path/*param", ...) has panicked after Static("/s", ...) mounted
\* /s/*filepath
C15_Witness ==
    /\ phase = "failed"
    /\ hist.call = Call("StaticFile", 0, <<>>, <<"/", "p", "a", "t", "h", "/", "*f">>)
    /\ hist.result = "static with wildcard"
    /\ \E j \in 1..Len(trees["GET"]) : trees["GET"][j].path = <<"/", "s", "/", "*f">>
    /\ trees["HEAD"] = trees["GET"]

(* C16: group composition.  The base path of a group is the parent's base
   path joined with the prefix as an absolute path: it starts with "/", its
   segments are the parent's followed by the prefix's, it has no empty
   segment, and it ends with "/" exactly when the prefix does ("v1" gives
   "/v1", "resho" under "/hi" gives "/hi/resho", "/login/" under "/v1" gives
   "/v1/login/").  The handler list of a group is the parent's list at the
   time of the call, then the middleware given to Group, then the
   middleware of each later Use, in that order. *)
C16_GroupComposition ==
    \A g \in 1..Len(groups) :
      LET G == groups[g]
          bp == G.basePath
          pb == BasePath(G.parent)
      IN  /\ bp[1] = "/"
          /\ Segments(bp) = Segments(pb) \o Segments(G.prefix)
          /\ \A j \in 1..(Len(bp) - 1) : ~(bp[j] = "/" /\ bp[j + 1] = "/")
          /\ (Last(bp) = "/") <=> (Last(G.prefix) = "/")
          /\ (pb = <<"/">> /\ G.prefix = <<"v", "1">>) => bp = <<"/", "v", "1">>
          /\ (pb = <<"/", "h", "i">> /\ G.prefix = <<"r", "e", "s", "h", "o">>)
                => bp = <<"/", "h", "i", "/", "r", "e", "s", "h", "o">>
          /\ (pb = <<"/", "v", "1">> /\ G.prefix = <<"/", "l", "o", "g", "i", "n", "/">>)
                => bp = <<"/", "v", "1", "/", "l", "o", "g", "i", "n", "/">>
          /\ Len(G.Handlers) = G.inherited + G.given + G.used
          /\ G.inherited <= Len(HandlersOf(G.parent))
          /\ \A j \in 1..G.inherited : G.Handlers[j] = HandlersOf(G.parent)[j]
          /\ \A j, k \in (G.inherited + 1)..Len(G.Handlers) :
                j < k => G.Handlers[j].id < G.Handlers[k].id

\* the two groups of TestRouterBasic: "/hi" with 2 handlers, "/hi/resho"
\* under it with 4
C16_Witness ==
    /\ Len(groups) = 2
    /\ groups[1].basePath = <<"/", "h", "i">>
    /\ groups[1].given = 1 /\ groups[1].used = 1
    /\ groups[2].parent = 1
    /\ groups[2].basePath = <<"/", "h", "i", "/", "r", "e", "s", "h", "o">>
    /\ groups[2].inherited = 2 /\ groups[2].given = 0 /\ groups[2].used = 2
    /\ Len(groups[2].Handlers) = 4

\* the routers whose chain for a route is the chain bound to the Context
ServingRouters == {r \in Routers : Front(c.handlers) = HandlersOf(r)}

\* the group r and the groups it is nested in, outermost last
RECURSIVE Ancestors(_)
Ancestors(r) == IF r = 0 THEN {} ELSE {r} \cup Ancestors(groups[r].parent)

(* C17: inherited middleware and cursor position.  A route registered on a
   group is stored, and matched, at the group's base path joined with the
   route's path, for each of the seven verbs; its chain is the group's
   handler list followed by the route's handler, the middleware of an
   outer group before the middleware of a group nested in it; the handlers
   are entered in chain order, and while the handler at position i runs and
   has not called Next the cursor index is i. *)
C17_InheritedMiddleware ==
    /\ (phase = "setup" /\ hist.call.op = "Handle") =>
          \E rt \in SeqRange(trees[MethodName(hist.call.method)]) :
             /\ rt.path[1] = "/"
             /\ Segments(rt.path) =
                    Segments(BasePath(hist.call.router)) \o Segments(hist.call.path)
             /\ Front(rt.handlers) = HandlersOf(hist.call.router)
             /\ Last(rt.handlers).kind = "route"
    /\ (phase \in {"chain", "handled"}) =>
          /\ (hist.outcome = "match") <=>
                \E rt \in SeqRange(trees[Request.Method]) : rt.path = Request.Path
          /\ hist.outcome = "match" =>
                /\ \E rt \in SeqRange(trees[Request.Method]) :
                       rt.path = Request.Path /\ rt.handlers = c.handlers
                /\ ServingRouters # {}
                /\ \A r \in ServingRouters : \A a \in Ancestors(r) :
                       /\ Len(HandlersOf(groups[a].parent)) = groups[a].inherited
                       /\ SubSeq(c.handlers, 1, groups[a].inherited)
                              = HandlersOf(groups[a].parent)
                       /\ SubSeq(c.handlers, groups[a].inherited + 1,
                                 groups[a].inherited + groups[a].given)
                              = SubSeq(groups[a].Handlers, groups[a].inherited + 1,
                                       Len(groups[a].Handlers))
                /\ \A j \in 1..Len(hist.entered) :
                       \A k \in 0..(hist.entered[j] - 1) :
                          \E l \in 1..(j - 1) : hist.entered[l] = k
    /\ (phase = "chain" /\ Top.k = "handler" /\ ~Top.nx) => c.index = Top.i

\* HEAD /v1/login/test: the route handler, at position 3 after the
\* middleware of "v1" and the two of "/login/", has set status 400 and
\* sees index 3
C17_Witness ==
    /\ phase = "chain"
    /\ Request.Method = "HEAD"
    /\ Request.Path = <<"/", "v", "1", "/", "l", "o", "g", "i", "n", "/", "t", "e", "s", "t">>
    /\ Len(groups) = 2 /\ groups[1].given = 1 /\ groups[2].given = 2
    /\ groups[2].parent = 1
    /\ Top.k = "handler" /\ Top.i = 3 /\ c.index = 3
    /\ TopHandler.kind = "route"
    /\ hist.entered = <<0, 1, 2, 3>>
    /\ writermem.status = StatusBadRequest

(* C18 as stated: every redirect of the dispatcher, trailing-slash or
   fixed-path, has status 301 for GET and HEAD and status 307 for every
   other method. *)
C18_AsStated ==
    (Answered /\ hist.outcome \in {"tsr", "fixed"}) =>
        w.status = (IF Request.Method \in {"GET", "HEAD"}
                    THEN StatusMovedPermanently ELSE StatusTemporaryRedirect)

(* C18, amended: every redirect of the dispatcher, trailing-slash or
   fixed-path, has status 301 for GET and status 307 for every other
   method, HEAD included. *)
C18_RedirectStatus ==
    (Answered /\ hist.outcome \in {"tsr", "fixed"}) =>
        /\ w.by = "redirect"
        /\ w.status = (IF Request.Method = "GET"
                       THEN StatusMovedPermanently ELSE StatusTemporaryRedirect)

\* HEAD /A with only /a registered: the fixed-path redirect has status 307
C18_Witness ==
    /\ Answered
    /\ hist.outcome = "fixed"
    /\ Request.Method = "HEAD"
    /\ hist.path = <<"/", "A">>
    /\ w.location = <<"/", "a">>
    /\ w.status = StatusTemporaryRedirect

(* C19: the fixed-path lookup is opt-in.  RedirectFixedPath is disabled by
   default; findCaseInsensitivePath is called for a request only when
   RedirectFixedPath is enabled, at most once, after the exact lookup, and
   only when the exact lookup found no handlers and no trailing-slash
   redirect was issued for the request. *)
C19_FixedPathOptIn ==
    /\ ~DefaultOptions.RedirectFixedPath
    /\ \A j \in 1..Len(hist.lookups) :
         hist.lookups[j] = "findCaseInsensitivePath" =>
            /\ opts.RedirectFixedPath
            /\ j = 2 /\ hist.lookups[1] = "getValue"
            /\ ~Registered(Request.Method, hist.path)
            /\ hist.outcome \in {"fixed", "405", "404"}
            /\ ~(opts.RedirectTrailingSlash
                 /\ Registered(Request.Method, OtherSlash(hist.path)))

\* GET /b with RedirectFixedPath enabled and only /a registered: the exact
\* lookup and the fixed-path lookup were made, then the 404 was served
C19_Witness ==
    /\ Answered
    /\ opts.RedirectFixedPath /\ opts.RedirectTrailingSlash
    /\ Request.Method = "GET"
    /\ hist.path = <<"/", "b">>
    /\ Registered("GET", <<"/", "a">>)
    /\ "findCaseInsensitivePath" \in SeqRange(hist.lookups)
    /\ hist.outcome = "404"
    /\ w.status = StatusNotFound

\* RequestLogger is the first handler of the chain bound to the Context and
\* has run up to its call of c.Next or to its return
LoggerActed ==
    /\ phase \in {"chain", "handled"}
    /\ c.handlers # <<>>
    /\ c.handlers[1].kind = "logger"
    /\ \/ \E j \in 1..Len(hist.returned) : hist.returned[j] = 0
       \/ \E j \in 1..Len(stack) : stack[j].k = "handler" /\ stack[j].i = 0 /\ stack[j].n > 0

\* a handler downstream of the first one has been entered
DownstreamEntered == \E j \in 1..Len(hist.entered) : hist.entered[j] > 0

(* C20 as stated: for every request that passes through RequestLogger the
   response has one X-Request-ID header, the inbound id when the request
   has one and a fresh id otherwise, which is then in the request's headers
   too; the header is set before any downstream handler runs. *)
C20_AsStated ==
    /\ LoggerActed =>
         /\ w.requestID = <<IF hist.inbound # "" THEN hist.inbound ELSE NewRequestID>>
         /\ Request.RequestID = w.requestID[1]
    /\ (phase \in {"chain", "handled"} /\ c.handlers # <<>>
        /\ c.handlers[1].kind = "logger" /\ DownstreamEntered) => w.requestID # <<>>

(* C20, amended: the statement holds for the requests whose path is not a
   substring of the comma-joined RequestLoggerIgnore list.  For a request
   whose path is one, RequestLogger returns at once: the response has no
   X-Request-ID header, the request's headers are left as they were, and
   the downstream handlers run without it. *)
C20_RequestID ==
    LET list == Join(opts.RequestLoggerIgnore)
        ignored == \E j \in 0..(Len(list) - Len(hist.path)) :
                      \A k \in 1..Len(hist.path) : list[j + k] = hist.path[k]
        logged == phase \in {"chain", "handled"} /\ c.handlers # <<>>
                  /\ c.handlers[1].kind = "logger"
    IN  /\ (LoggerActed /\ ~ignored) =>
             /\ w.requestID = <<IF hist.inbound # "" THEN hist.inbound ELSE NewRequestID>>
             /\ Request.RequestID = w.requestID[1]
        /\ (logged /\ DownstreamEntered /\ ~ignored) => w.requestID # <<>>
        /\ (logged /\ ignored) =>
             /\ w.requestID = <<>>
             /\ Request.RequestID = hist.inbound

\* GET /a without an inbound id, ignore list "/h,/m": the route handler runs
\* after RequestLogger put the fresh id on the response and on the request
C20_Witness ==
    /\ phase = "chain"
    /\ opts.RequestLoggerIgnore = <<<<"/", "h">>, <<"/", "m">>>>
    /\ hist.path = <<"/", "a">>
    /\ hist.inbound = ""
    /\ hist.outcome = "match"
    /\ Top.k = "handler" /\ TopHandler.kind = "route"
    /\ w.requestID = <<NewRequestID>>
    /\ Request.RequestID = NewRequestID
    /\ ~writermem.written

\* the goroutines between a.pool.Get and a.pool.Put
InFlight == {g \in 1..MaxGoroutines : goroutines[g].pc # "parked"}

(* C21: exclusive context ownership.  Under every interleaving of concurrent
   ServeHTTP calls, no two goroutines in flight hold the same Context, a
   Context held by a goroutine is not in the pool, the pool holds no Context
   twice, and the Context a goroutine works on holds the request, the
   writer state, the chain, the params and the errors of that goroutine's
   request only. *)
C21_ExclusiveOwnership ==
    /\ \A g, h \in InFlight : g # h => goroutines[g].c # goroutines[h].c
    /\ \A g \in InFlight : \A j \in 1..Len(pool) : pool[j] # goroutines[g].c
    /\ \A j, k \in 1..Len(pool) : j # k => pool[j] # pool[k]
    /\ \A g \in InFlight :
         LET o == heap[goroutines[g].c]
             r == goroutines[g].r
             v == getValue(trees[r.Method], r.Path)
         IN  /\ goroutines[g].pc # "got" => o.Request = r
             /\ goroutines[g].pc = "reset" =>
                   o.c = reset(o.c) /\ o.writermem = resetWriter
             /\ goroutines[g].pc \in {"chain", "done"} =>
                   /\ o.c.handlers = (IF v.handlers # <<>> THEN v.handlers ELSE Handlers)
                   /\ o.c.Params = v.ps
                   /\ \A j \in 1..Len(o.c.Errors) : o.c.Errors[j].req = r
                   /\ Len(o.c.Errors) = (IF v.handlers # <<>> THEN 0 ELSE 1)
                   /\ o.writermem.written <=> goroutines[g].pc = "done"

\* two requests in flight at once, GET /a on a Context taken from the pool
\* that served the miss GET / before, GET /b on a new one
C21_Witness ==
    /\ InFlight = {1, 2}
    /\ goroutines[1].pc = "chain" /\ goroutines[2].pc = "chain"
    /\ goroutines[1].from = "pool" /\ goroutines[2].from = "New"
    /\ goroutines[1].r.Path = <<"/", "a">> /\ goroutines[2].r.Path = <<"/", "b">>
    /\ heap[goroutines[1].c].c.Params = <<[Key |-> ":p", Value |-> <<"a">>]>>
    /\ heap[goroutines[2].c].c.Params = <<[Key |-> ":p", Value |-> <<"b">>]>>
    /\ heap[goroutines[1].c].c.Errors = <<>>

(* C22: the routing table is read-only while serving.  No step taken for a
   request, from ServeHTTP to the Put, whatever the outcome (match,
   trailing-slash or fixed-path redirect, 405, 404), changes the per-method
   trees, the router's global handler list or a group; on the 405/404 path
   the chain bound to the Context is the global handler list, which stays
   as it was. *)
C22_RoutingTableReadOnly ==
    [][/\ phase' \notin {"new", "setup", "failed"} =>
            /\ trees' = trees
            /\ Handlers' = Handlers
            /\ groups' = groups
       /\ (phase' = "chain" /\ phase = "dispatch" /\ hist'.outcome \in {"405", "404"}) =>
            c'.handlers = Handlers]_vars

\* a 405 is being served with the global chain bound to the Context, the
\* route of the other method still registered
C22_Witness ==
    /\ phase = "chain"
    /\ hist.outcome = "405"
    /\ Handlers # <<>>
    /\ c.handlers = Handlers
    /\ Request.Method = "POST"
    /\ trees["POST"] # <<>>
    /\ Registered("GET", hist.path)
    /\ hist.entered # <<>>

(* C23: WriteHeaderNow is idempotent.  The status line is on the wire
   exactly when the wrapper says the headers are written; once they are,
   no later step of the same request (a handler's Status or Write, a
   ServeError, the dispatcher's WriteHeaderNow after the chain or after
   http.Redirect) changes the status sent or who sent it, and the wrapper
   stays written. *)
C23_WriteHeaderNowIdempotent ==
    [][/\ writermem.written <=> w.status # 0
       /\ (writermem.written /\ phase' # "dispatch") =>
            /\ writermem'.written
            /\ w'.status = w.status
            /\ w'.by = w.by]_vars

\* a handler wrote its body with the default status, then set 410; the
\* dispatcher's WriteHeaderNow has run and the client has the handler's 200
C23_Witness ==
    /\ phase = "handled"
    /\ hist.outcome = "match"
    /\ hist.wrote
    /\ hist.lastStatus = StatusGone
    /\ hist.panic = "none"
    /\ hist.errs = 0
    /\ writermem.written
    /\ w.status = StatusOK
    /\ w.by = "handler"

\* "/" seg "/" seg ..., with a final "/" when trailing
RECURSIVE Build(_, _)
Build(segs, trailing) ==
    IF segs = <<>> THEN (IF trailing THEN <<"/">> ELSE <<>>)
    ELSE <<"/">> \o Head(segs) \o Build(Tail(segs), trailing)

\* the places of the parameter segments of a pattern, in path order
ParamPlaces(pat) ==
    SelectSeq([j \in 1..Len(Segments(pat)) |-> j],
              LAMBDA j : IsWild(Segments(pat)[j][1]))

\* path is pat with every parameter segment replaced by a non-empty text
Instantiates(pat, path) ==
    LET ps == Segments(pat)
        xs == Segments(path)
    IN  /\ ~ \E j \in 1..Len(pat) : IsCatchAll(pat[j])
        /\ Len(ps) = Len(xs)
        /\ pat = Build(ps, Last(pat) = "/")
        /\ path = Build(xs, Last(pat) = "/")
        /\ \A j \in 1..Len(ps) : IsWild(ps[j][1]) \/ ps[j] = xs[j]

\* one param per parameter segment, in path order, with the request's text
ParamsOf(pat, path) ==
    [k \in 1..Len(ParamPlaces(pat)) |->
        [Key |-> Segments(pat)[ParamPlaces(pat)[k]][1],
         Value |-> Segments(path)[ParamPlaces(pat)[k]]]]

(* C24: lookup correctness.  Whatever routes of a method were registered, in
   whatever order, a request whose path instantiates a registered pattern is
   matched, and the Context is bound to exactly that route's handler chain
   and to one param per parameter segment of the pattern, in path order,
   whose value is the text of the request's segment. *)
C24_LookupCorrect ==
    (phase \in {"chain", "handled"} /\ hist.outcome # "none") =>
        \A rt \in SeqRange(trees[Request.Method]) :
            Instantiates(rt.path, hist.path) =>
                /\ hist.outcome = "match"
                /\ c.handlers = rt.handlers
                /\ c.Params = ParamsOf(rt.path, hist.path)

\* "/u/:p" was registered first and "/u/:p/:q" second; "/u/4/b" runs the
\* second route's chain with p=4, q=b
C24_Witness ==
    /\ phase = "chain"
    /\ hist.outcome = "match"
    /\ Len(trees["GET"]) = 2
    /\ trees["GET"][1].path = <<"/", "u", "/", ":p">>
    /\ trees["GET"][2].path = <<"/", "u", "/", ":p", "/", ":q">>
    /\ hist.path = <<"/", "u", "/", "4", "/", "b">>
    /\ c.handlers = trees["GET"][2].handlers
    /\ c.handlers # trees["GET"][1].handlers
    /\ c.Params = <<[Key |-> ":p", Value |-> <<"4">>], [Key |-> ":q", Value |-> <<"b">>]>>
    /\ hist.entered # <<>>

\* the routes of a tree that end in a catch-all after a static prefix
CatchAllRoutes(root) ==
    {rt \in SeqRange(root) : /\ IsCatchAll(Last(rt.path))
                             /\ ~HasWildcard(Front(rt.path))}

(* C25: catch-all greediness.  A request whose path starts with the prefix
   of a route that ends in a catch-all segment is matched by that route, and
   the catch-all param is the entire remainder of the path, embedded slashes
   included; a catch-all is the last element of its pattern and no other
   route of the tree continues from the place where it stands. *)
C25_CatchAllGreedy ==
    /\ \A m \in DOMAIN trees : \A rt \in SeqRange(trees[m]) :
        /\ \A j \in 1..(Len(rt.path) - 1) : ~IsCatchAll(rt.path[j])
        /\ IsCatchAll(Last(rt.path)) =>
            \A other \in SeqRange(trees[m]) \ {rt} :
                ~ (/\ Len(other.path) >= Len(rt.path)
                   /\ SubSeq(other.path, 1, Len(rt.path) - 1) = Front(rt.path))
    /\ (phase \in {"chain", "handled"} /\ hist.outcome # "none") =>
        \A rt \in CatchAllRoutes(trees[Request.Method]) :
            LET n == Len(rt.path) - 1
            IN  (Len(hist.path) >= n /\ SubSeq(hist.path, 1, n) = Front(rt.path)) =>
                    /\ hist.outcome = "match"
                    /\ c.handlers = rt.handlers
                    /\ c.Params = <<[Key |-> Last(rt.path),
                                     Value |-> SubSeq(hist.path, n + 1, Len(hist.path))]>>

\* "/a/*f" is registered next to "/a"; "/a/b/c" binds the catch-all to "b/c"
C25_Witness ==
    /\ phase = "chain"
    /\ hist.outcome = "match"
    /\ \E j \in 1..Len(trees["GET"]) : trees["GET"][j].path = <<"/", "a", "/", "*f">>
    /\ \E j \in 1..Len(trees["GET"]) : trees["GET"][j].path = <<"/", "a">>
    /\ hist.path = <<"/", "a", "/", "b", "/", "c">>
    /\ c.Params = <<[Key |-> "*f", Value |-> <<"b", "/", "c">>]>>
    /\ hist.entered # <<>>

\* a parameter or a catch-all segment
IsWildcard(t) == IsWild(t) \/ IsCatchAll(t)

\* p and q have wildcards of different names at the same place of the tree
DifferentWildcards(p, q) ==
    \E j \in 1..Len(p) :
        /\ j <= Len(q)
        /\ SubSeq(p, 1, j - 1) = SubSeq(q, 1, j - 1)
        /\ IsWildcard(p[j])
        /\ IsWildcard(q[j])
        /\ p[j] # q[j]

(* C26: no-conflict enforcement.  A registration whose path puts a wildcard
   of another name at a place where a route of the same method already has
   one fails and adds nothing; a controller whose path does not start with
   "/" is not registered; every registered path starts with "/"; and after
   any sequence of registrations no two routes of a method have different
   wildcards at the same place, so a node has at most one wildcard
   child. *)
C26_NoConflict ==
    /\ \A m \in DOMAIN trees : \A r1 \in SeqRange(trees[m]) :
        /\ Head(r1.path) = "/"
        /\ \A r2 \in SeqRange(trees[m]) : ~DifferentWildcards(r1.path, r2.path)
    /\ (hist.call.op = "Handle" /\ validMethod(hist.call.method)) =>
        ((\E rt \in SeqRange(trees[MethodName(hist.call.method)]) :
             DifferentWildcards(rt.path, joinPaths(<<"/">>, hist.call.path)))
         => (phase = "failed" /\ hist.result = "conflict"))
    /\ (hist.call.op = "RegisterController"
        /\ (hist.call.path = <<>> \/ Head(hist.call.path) # "/")) =>
        /\ phase = "failed"
        /\ hist.result = "controller path has to start with /"
    /\ (hist.call.op = "RegisterController" /\ hist.result = "ok") =>
        \E rt \in SeqRange(trees["GET"]) :
            rt.path = joinPaths(hist.call.path, ControllerRoute)

\* "/u/:p" is registered; registering "/u/:q" for the same method has failed
\* and the tree holds the first route only
C26_Witness ==
    /\ phase = "failed"
    /\ hist.call = Call("Handle", 0, <<"G", "E", "T">>, <<"/", "u", "/", ":q">>)
    /\ hist.result = "conflict"
    /\ Len(trees["GET"]) = 1
    /\ trees["GET"][1].path = <<"/", "u", "/", ":p">>

\* the page and the number per page of the Paginator made last: the parsed
\* strings, the defaults for a value below 1 or a string that is no number
PageOf(str) == IF ParseInt(str) < 1 THEN PaginatorPageDefault ELSE ParseInt(str)

PerPageOf(str) == IF ParseInt(str) < 1 THEN PaginatorPerPageDefault ELSE ParseInt(str)

(* C27: Paginator offset.  For every Paginator NewPaginator makes, Page and
   PerPage are the parsed strings, with 1 and 20 in the place of a value
   below 1 or of a string that is no number, and Offset is Page * PerPage,
   as the field is documented (page 2 with 20 per page gives 40). *)
C27_OffsetAsDocumented ==
    (paginator.made /\ paginator.from = "NewPaginator") =>
        /\ paginator.p.Page = PageOf(paginator.page)
        /\ paginator.p.PerPage = PerPageOf(paginator.perPage)
        /\ paginator.p.Offset = paginator.p.Page * paginator.p.PerPage

\* the names other than name have in after what they have in before
OthersUnchanged(before, after, name) ==
    \A k \in SessionNames \ {name} :
        /\ k \in DOMAIN after <=> k \in DOMAIN before
        /\ Get(after, k) = Get(before, k)

(* C28: GetOnce consumes the value.  For any session state and key,
   GetOnce(key) returns what Get(key) would have returned and removes the
   key, so that a Get or GetOnce of the key that follows returns nil, and
   the other keys are as they were; Get changes nothing; Set(key, v) makes
   Get(key) return v whatever was there, and Clear leaves no key. *)
C28_GetOnceConsumes ==
    [][LET before == session.Values
           after == session'.Values
           name == session'.name
       IN  /\ session'.call = "GetOnce" =>
                /\ session'.ret = Get(before, name)
                /\ name \notin DOMAIN after
                /\ Get(after, name) = nil
                /\ GetOnce(after, name).ret = nil
                /\ OthersUnchanged(before, after, name)
           /\ session'.call = "Get" =>
                /\ session'.ret = Get(before, name)
                /\ after = before
           /\ session'.call = "Set" =>
                /\ Get(after, name) = session'.value
                /\ name \in DOMAIN after
                /\ OthersUnchanged(before, after, name)
           /\ session'.call = "Clear" => DOMAIN after = {}]_vars

\* k1 was set to v1 and then to v2, k2 to v1; GetOnce(k1) has returned v2 and
\* left k2 alone
C28_Witness ==
    /\ session.call = "GetOnce"
    /\ session.name = "k1"
    /\ session.ret = "v2"
    /\ session.calls = 4
    /\ DOMAIN session.Values = {"k2"}
    /\ session.Values["k2"] = "v1"

(* C29: Context lifecycle.  ServeHTTP takes the Context out of the pool and
   resets the writer, the request and every other field before the
   dispatcher or a handler reads it; a handler is entered only between that
   and the dispatcher's return, while the Context is out of the pool; when
   the handling has returned normally the Context is put back, once, as it
   is: nothing is reset at release, and after the Put the Context changes
   only when a later ServeHTTP takes it. *)
C29_ContextLifecycle ==
    [][/\ (phase # "dispatch" /\ phase' = "dispatch") =>
            /\ phase \in {"setup", "idle"}
            /\ pool' = <<>>
            /\ c' = [handlers |-> <<>>, index |-> -1, Params |-> <<>>, Errors |-> <<>>]
            /\ writermem' = [status |-> StatusOK, written |-> FALSE]
            /\ w'.status = 0
            /\ hist'.entered = <<>>
       /\ Len(hist'.entered) > Len(hist.entered) =>
            /\ phase = "chain"
            /\ pool = <<>>
       /\ phase = "handled" =>
            /\ stack = <<>>
            /\ writermem.written
            /\ phase' = "idle"
            /\ pool = <<>>
            /\ pool' = <<c>>
       /\ pool' # pool =>
            \/ phase' = "dispatch" /\ pool' = <<>>
            \/ /\ phase = "handled"
               /\ c' = c
               /\ writermem' = writermem
               /\ Request' = Request
               /\ w' = w
       /\ (phase = "idle" /\ phase' # "dispatch") =>
            UNCHANGED <<c, pool, writermem, Request, w>>]_vars

\* a request with a parameter was served by its handler and the Context is
\* back in the pool with the request's params still in it
C29_Witness ==
    /\ phase = "idle"
    /\ hist.result = "returned"
    /\ hist.outcome = "match"
    /\ hist.entered # <<>>
    /\ pool = <<c>>
    /\ c.Params # <<>>
    /\ c.handlers # <<>>
    /\ writermem.written

(* C30: redirect exclusions.  A request whose method is CONNECT or whose
   path is exactly "/" is never answered with a trailing-slash or a
   fixed-path redirect, whatever RedirectTrailingSlash and RedirectFixedPath
   are: when no route matches it, it gets the 405 or the 404 and no
   Location. *)
C30_RedirectExclusions ==
    (/\ hist.outcome # "none"
     /\ Request.Method = "CONNECT" \/ hist.path = <<"/">>) =>
        /\ hist.outcome \in {"match", "405", "404"}
        /\ Request.Path = hist.path
        /\ (Answered /\ hist.outcome # "match") =>
            /\ w.status = (IF hist.outcome = "405" THEN StatusMethodNotAllowed
                           ELSE StatusNotFound)
            /\ w.location = <<>>

\* CONNECT /a is answered 404 while CONNECT /a/ is registered and
\* RedirectTrailingSlash is on: any other method would have been redirected
C30_Witness ==
    /\ Answered
    /\ Request.Method = "CONNECT"
    /\ hist.path = <<"/", "a">>
    /\ Registered("CONNECT", <<"/", "a", "/">>)
    /\ opts.RedirectTrailingSlash
    /\ hist.outcome = "404"
    /\ w.status = StatusNotFound

\* RequestLogger is the first handler of the chain of a request whose path
\* the ignore list matches
IgnoredByLogger ==
    /\ phase \in {"chain", "handled"}
    /\ c.handlers # <<>>
    /\ c.handlers[1].kind = "logger"
    /\ Contains(Join(opts.RequestLoggerIgnore), hist.path)

(* C31: the ignore list of RequestLogger.  When the request's path is a
   substring of the comma-joined ignore list, RequestLogger returns without
   calling Next: it sets no X-Request-ID on the response or the request and
   logs nothing; the handlers after it are still entered by the loop of the
   dispatcher's Next, each once and in order, so that when the request is
   answered through its route every handler of the chain has run. *)
C31_IgnoreList ==
    IgnoredByLogger =>
        /\ w.requestID = <<>>
        /\ Request.RequestID = hist.inbound
        /\ ~hist.logged
        /\ \A j \in 1..Len(stack) :
            (stack[j].k = "handler" /\ stack[j].i = 0) => stack[j].n = 0
        /\ \A j \in 1..Len(hist.entered) : hist.entered[j] = j - 1
        /\ (phase = "handled" /\ hist.outcome = "match") =>
            Len(hist.entered) = Len(c.handlers)

\* "/h" is in the ignore list; GET /h was answered after the logger, a
\* middleware and the route's handler were entered in this order, with no
\* request id and nothing logged
C31_Witness ==
    /\ phase = "handled"
    /\ hist.outcome = "match"
    /\ hist.path = <<"/", "h">>
    /\ opts.RequestLoggerIgnore = <<<<"/", "h">>>>
    /\ hist.inbound = "abc"
    /\ Len(c.handlers) = 3
    /\ c.handlers[1].kind = "logger"
    /\ hist.entered = <<0, 1, 2>>
    /\ w.requestID = <<>>
    /\ ~hist.logged

====
